---------------------------- MODULE Spec2Model ----------------------------
(***************************************************************************)
(* State-machine model of iothub_client/src/iothubtransport_amqp_common.c: *)
(* the AMQP transport that multiplexes registered devices over one         *)
(* connection.  One transport instance is modelled together with the       *)
(* collaborators it calls (stream provider, connection, device sessions,   *)
(* upper client).  Each upper client owns one waiting-to-send list and     *)
(* registers at most one device at a time, so a client index also names    *)
(* the AMQP_TRANSPORT_DEVICE_INSTANCE allocated for it.                    *)
(***************************************************************************)
EXTENDS Integers, Sequences, FiniteSets, TLC

(* ------------------------------ bounds -------------------------------- *)
\* number of upper clients (each with its own waiting-to-send list)
MaxClients == 2
\* events one client may enqueue over the life of the transport
MaxEvents == 2
\* cloud-to-device messages the device sessions deliver
MaxMessages == 2
\* events of the one client whose completions are followed
MaxCompletions == 5
\* largest number of seconds a caller passes as the value of an option
MaxOptionSecs == 1
\* events of the one client whose waiting-to-send list is followed
MaxQueued == 6

Clients == 1..MaxClients

(* ------------------------- program constants -------------------------- *)
MAX_NUMBER_OF_DEVICE_FAILURES == 5
DEFAULT_DEVICE_STATE_CHANGE_TIMEOUT_SECS == 60
INDEFINITE_TIME == -1
DEFAULT_CBS_REQUEST_TIMEOUT_SECS == 30
DEFAULT_EVENT_SEND_TIMEOUT_SECS == 300
DEFAULT_SAS_TOKEN_LIFETIME_SECS == 3600
DEFAULT_SAS_TOKEN_REFRESH_TIME_SECS == 1800
\* int results: RESULT_OK, and __FAILURE__ (some non-zero value)
RESULT_OK == "RESULT_OK"
FAILURE == "__FAILURE__"

NULL == "NULL"

\* AMQP_TRANSPORT_AUTHENTICATION_MODE
AMQP_TRANSPORT_AUTHENTICATION_MODE == {"NOT_SET", "CBS", "X509"}
\* the AMQP_CONNECTION_STATE values the transport names
AMQP_CONNECTION_STATE == {"OPENED", "CLOSED", "ERROR"}
\* DEVICE_STATE
DEVICE_STATE ==
    {"STOPPED", "STARTING", "STARTED", "STOPPING",
     "ERROR_AUTH", "ERROR_AUTH_TIMEOUT", "ERROR_MSG"}
\* D2C_EVENT_SEND_RESULT
D2C_EVENT_SEND_RESULT ==
    {"OK", "ERROR_CANNOT_PARSE", "ERROR_FAIL_SENDING", "ERROR_TIMEOUT",
     "DEVICE_DESTROYED", "ERROR_UNKNOWN"}
\* IOTHUB_CLIENT_CONFIRMATION_RESULT values produced by the transport
IOTHUB_CLIENT_CONFIRMATION_RESULT ==
    {"CONFIRMATION_OK", "CONFIRMATION_ERROR", "CONFIRMATION_MESSAGE_TIMEOUT",
     "CONFIRMATION_BECAUSE_DESTROY"}

\* device ids a caller may pass (contents of the string)
DeviceIds == {"a", "b"}

VARIABLES
    tls_io,                        \* NULL or the byte-stream
    saved_tls_options,             \* NULL or the cached stream options
    amqp_connection,               \* NULL or the connection, named by its config
    amqp_connection_state,
    preferred_authentication_mode,
    registered_devices,            \* sequence of device instances (by client)
    is_connection_retry_required,
    dev,                           \* AMQP_TRANSPORT_DEVICE_INSTANCE per client
    session,                       \* the device session behind device_handle
    waiting_to_send,               \* the clients' waiting-to-send lists
    confirmations,                 \* per client: events whose callback fired
    last_confirmation,             \* the confirmation callback the latest step made
    contexts,                      \* the MESSAGE_CALLBACK_INFOs created so far
    last_disposition,              \* the SendMessageDisposition call of the latest step
    pc,                            \* position of the driver
    list_item,                     \* DoWork's iterator over the registry
    last_freed_access,             \* the freed device instance the latest step read
    device_specific_options        \* the transport's four option_..._secs fields

vars == <<tls_io, saved_tls_options, amqp_connection, amqp_connection_state,
          preferred_authentication_mode, registered_devices,
          is_connection_retry_required, dev, session, waiting_to_send,
          confirmations, last_confirmation, contexts, last_disposition,
          pc, list_item, last_freed_access, device_specific_options>>

(* ------------------------------ values -------------------------------- *)
\* A C string is a buffer (ptr) holding characters (chars).  The buffer a
\* caller passes to Register belongs to the caller; STRING_construct copies
\* the characters into a buffer owned by the device instance.
CallerBuffer(c) == [kind |-> "caller", of |-> c]
OwnedBuffer(c) == [kind |-> "owned", of |-> c]
NoString == [ptr |-> [kind |-> NULL, of |-> 0], chars |-> NULL]
STRING_construct(c, str) == [ptr |-> OwnedBuffer(c), chars |-> str.chars]
STRING_c_str(string) == string

\* A timestamp is INDEFINITE_TIME or a number of seconds.  Each device's
\* timestamps are counted from its last recorded state change, so a
\* successful get_time() in the state-change callback reads 0 and a later
\* get_time() reads the seconds elapsed since.
ElapsedSecs == {0, DEFAULT_DEVICE_STATE_CHANGE_TIMEOUT_SECS}
StateChangeTimes == {INDEFINITE_TIME, 0}
CurrentTimes == {INDEFINITE_TIME} \cup ElapsedSecs
get_difftime(end_time, start_time) == end_time - start_time

\* the slot of a client that has no device instance
NoDevice ==
    [device_id |-> NoString,
     device_state |-> "STOPPED",
     number_of_previous_failures |-> 0,
     number_of_send_event_complete_failures |-> 0,
     time_of_last_state_change |-> 0,
     max_state_change_timeout_secs |-> 0]
\* The slot of a client whose device instance was freed while the client
\* still holds its handle.  The allocator may hand the block to a later
\* malloc: by names the client whose device instance now occupies the block
\* (0: the block is still free).
FreedDevice(by) ==
    [NoDevice EXCEPT !.device_id.ptr = [kind |-> "freed", of |-> by]]
IsFreed(c) == dev[c].device_id.ptr.kind = "freed"
\* the slots once the device instance of client c is freed: its block, and
\* with it every older handle to that block, is free again
AfterFree(devices, c) ==
    [x \in Clients |->
        IF x = c \/ (devices[x].device_id.ptr.kind = "freed"
                        /\ devices[x].device_id.ptr.of = c)
        THEN FreedDevice(0)
        ELSE devices[x]]
\* the blocks malloc can return for the device instance of client c: a new
\* one (0) or the free block a stale handle of another client points to
FreeBlocks(c) ==
    {0} \cup {x \in Clients \ {c} : IsFreed(x) /\ dev[x].device_id.ptr.of = 0}

\* the option names SetOption compares its argument with, and the names the
\* device session knows the same options by
DeviceSpecificOptions ==
    {"sas_token_lifetime", "sas_token_refresh_time", "cbs_request_timeout",
     "event_send_timeout_secs"}
DeviceOptionNames ==
    {"DEVICE_OPTION_SAS_TOKEN_LIFETIME_SECS",
     "DEVICE_OPTION_SAS_TOKEN_REFRESH_TIME_SECS",
     "DEVICE_OPTION_CBS_REQUEST_TIMEOUT_SECS",
     "DEVICE_OPTION_EVENT_SEND_TIMEOUT_SECS"}
\* the values a caller passes with such an option
OptionValues == 1..MaxOptionSecs

\* The options of a device session the transport has set nothing on: the
\* session holds its own defaults, written 0 (no value a caller passes).
NotSetByTransport == 0
NoOptions == [name \in DeviceOptionNames |-> NotSetByTransport]

NoSession ==
    [state |-> "STOPPED", in_flight |-> <<>>, subscribed |-> FALSE,
     authentication_mode |-> NULL, options |-> NoOptions]
NoConfirmation ==
    [client |-> 0, message |-> 0, result |-> NULL, by |-> NULL, code |-> NULL]

\* no DEVICE_MESSAGE_DISPOSITION_INFO, no device_send_message_disposition call
NoInfo == [source |-> NULL, message_id |-> 0]
NoCall == [session |-> NULL, source |-> NULL, message_id |-> 0, result |-> NULL]
NoDisposition ==
    [message_data |-> 0, disposition |-> NULL, result |-> NULL, call |-> NoCall]

Range(seq) == {seq[i] : i \in 1..Len(seq)}
IsRegistered(c) == c \in Range(registered_devices)
\* a list removal that would leave the list as it is
RemoveNothing(seq, i) == seq
\* singlylinkedlist_remove: the list without its item i
RemoveAt(seq, i) == SubSeq(seq, 1, i - 1) \o SubSeq(seq, i + 1, Len(seq))

(* ------------------------ general helpers ----------------------------- *)
\* a timeout test that takes an unreadable clock for "not timed out"
is_timeout_reached_or_unknown(start_time, timeout_in_secs, current_time) ==
    IF start_time = INDEFINITE_TIME \/ current_time = INDEFINITE_TIME
    THEN [result |-> RESULT_OK, is_timed_out |-> FALSE]
    ELSE [result |-> RESULT_OK,
          is_timed_out |-> get_difftime(current_time, start_time) >= timeout_in_secs]

\* a timeout test that would need more than timeout_in_secs to have passed
is_timeout_exceeded(start_time, timeout_in_secs, current_time) ==
    IF start_time = INDEFINITE_TIME \/ current_time = INDEFINITE_TIME
    THEN [result |-> FAILURE, is_timed_out |-> FALSE]
    ELSE [result |-> RESULT_OK,
          is_timed_out |-> get_difftime(current_time, start_time) > timeout_in_secs]

\* is_timeout_reached: [result, is_timed_out]; current_time is what
\* get_time(NULL) returns when it is called.
is_timeout_reached(start_time, timeout_in_secs, current_time) ==
    IF start_time = INDEFINITE_TIME
    THEN [result |-> FAILURE, is_timed_out |-> FALSE]
    ELSE IF current_time = INDEFINITE_TIME
    THEN [result |-> FAILURE, is_timed_out |-> FALSE]
    ELSE [result |-> RESULT_OK,
          is_timed_out |-> get_difftime(current_time, start_time) >= timeout_in_secs]

\* a callback that saves every state it is notified of
save_device_state(registered_device, previous_state, new_state, now) ==
    [registered_device EXCEPT !.device_state = new_state,
                              !.time_of_last_state_change = now]

\* on_device_state_changed_callback: the device instance after the
\* notification; now is what get_time(NULL) returns.
on_device_state_changed_callback(registered_device, previous_state, new_state, now) ==
    IF new_state # previous_state
    THEN [registered_device EXCEPT !.device_state = new_state,
                                   !.time_of_last_state_change = now]
    ELSE registered_device

\* find_device_by_id_callback: the stored id is compared with match_context
\* as the code compares them, pointer against pointer.
find_device_by_id_callback(device_instance, match_context) ==
    IF match_context.chars = NULL
    THEN FALSE
    ELSE IF device_instance.device_id.chars = NULL
            \/ STRING_c_str(device_instance.device_id).ptr # match_context.ptr
    THEN FALSE
    ELSE TRUE

\* singlylinkedlist_find with find_device_by_id_callback: the position of the
\* first matching item, 0 when there is none.
is_device_registered_ex(devices, device_id) ==
    LET hits == {i \in 1..Len(devices) :
                    find_device_by_id_callback(dev[devices[i]], device_id)}
    IN IF hits = {} THEN 0 ELSE CHOOSE i \in hits : \A j \in hits : i <= j

\* a credential check that would accept every device config
any_device_credential_acceptable(deviceKey, deviceSasToken, preferred) == TRUE

is_device_credential_acceptable(deviceKey, deviceSasToken, preferred) ==
    IF deviceSasToken # NULL /\ deviceKey # NULL THEN FALSE
    ELSE IF preferred = "NOT_SET" THEN TRUE
    ELSE IF preferred = "X509" /\ (deviceKey # NULL \/ deviceSasToken # NULL) THEN FALSE
    ELSE IF preferred # "X509" /\ (deviceKey = NULL /\ deviceSasToken = NULL) THEN FALSE
    ELSE TRUE

\* device_config.authentication_mode in Register
DeviceAuthMode(deviceKey, deviceSasToken) ==
    IF deviceKey # NULL \/ deviceSasToken # NULL THEN "CBS" ELSE "X509"

\* a mapping that would report every result but OK as an error
confirmation_error_unless_ok(result) ==
    IF result = "OK" THEN "CONFIRMATION_OK" ELSE "CONFIRMATION_ERROR"

get_iothub_client_confirmation_result_from(result) ==
    CASE result = "OK" -> "CONFIRMATION_OK"
      [] result \in {"ERROR_CANNOT_PARSE", "ERROR_FAIL_SENDING"} -> "CONFIRMATION_ERROR"
      [] result = "ERROR_TIMEOUT" -> "CONFIRMATION_MESSAGE_TIMEOUT"
      [] result = "DEVICE_DESTROYED" -> "CONFIRMATION_BECAUSE_DESTROY"
      [] OTHER -> "CONFIRMATION_ERROR"

(* --------------------------- event pipeline --------------------------- *)
\* a drain that would take the newest entry of the list, not its head
get_newest_event_to_send(list) ==
    [message |-> list[Len(list)], rest |-> SubSeq(list, 1, Len(list) - 1)]

\* get_next_event_to_send: the entry taken from the list and the list left
get_next_event_to_send(list) ==
    [message |-> Head(list), rest |-> Tail(list)]

\* on_event_send_complete, its effect on the device instance
on_event_send_complete(registered_device, result) ==
    IF result # "OK" /\ result # "DEVICE_DESTROYED"
    THEN [registered_device EXCEPT
              !.number_of_send_event_complete_failures = @ + 1]
    ELSE [registered_device EXCEPT
              !.number_of_send_event_complete_failures = 0]

\* on_event_send_complete, the call of message->callback it makes; by says
\* who completed the event: the drain (a rejected submission), the device
\* session, or the destruction of the device session.
Confirmation(c, message, result, by) ==
    [client |-> c, message |-> message, result |-> result, by |-> by,
     code |-> get_iothub_client_confirmation_result_from(result)]

\* A tick state is what one per-device tick works on: the device instance d,
\* its session s, its waiting-to-send list w, the confirmations made so far
\* (conf, last), the MESSAGE_CALLBACK_INFOs ctx, the result of the tick, and
\* the calls of device_start_async, device_stop and device_do_work made on the
\* session, in the order they are made.
TickState(c) ==
    [d |-> dev[c], s |-> session[c], w |-> waiting_to_send[c],
     conf |-> confirmations[c], last |-> NoConfirmation, ctx |-> contexts,
     result |-> RESULT_OK, calls |-> <<>>]

\* the session takes the submitted events in order (device_send_event_async
\* returning RESULT_OK for each of the first n)
RECURSIVE Submit(_, _)
Submit(ts, n) ==
    IF n = 0 THEN ts
    ELSE LET next == get_next_event_to_send(ts.w)
         IN Submit([ts EXCEPT !.w = next.rest,
                              !.s.in_flight = Append(@, next.message)], n - 1)

\* a drain that would go on submitting after a rejected submission
send_pending_events_without_break(c, ts, accepted) ==
    LET sent == Submit(ts, accepted)
    IN IF sent.w = <<>>
       THEN [sent EXCEPT !.result = RESULT_OK]
       ELSE LET next == get_next_event_to_send(sent.w)
                done == Confirmation(c, next.message, "ERROR_FAIL_SENDING", "drain")
            IN [sent EXCEPT !.w = <<>>,
                            !.s.in_flight = @ \o next.rest,
                            !.d = on_event_send_complete(@, "ERROR_FAIL_SENDING"),
                            !.conf = Append(@, done.message),
                            !.last = done,
                            !.result = FAILURE]

\* send_pending_events: device_send_event_async accepts the first accepted
\* events; if one is left it is rejected, completed at once with
\* ERROR_FAIL_SENDING, and the loop ends.
send_pending_events(c, ts, accepted) ==
    LET sent == Submit(ts, accepted)
    IN IF sent.w = <<>>
       THEN [sent EXCEPT !.result = RESULT_OK]
       ELSE LET next == get_next_event_to_send(sent.w)
                done == Confirmation(c, next.message, "ERROR_FAIL_SENDING", "drain")
            IN [sent EXCEPT !.w = next.rest,
                            !.d = on_event_send_complete(@, "ERROR_FAIL_SENDING"),
                            !.conf = Append(@, done.message),
                            !.last = done,
                            !.result = FAILURE]

(* --------------------------- device session --------------------------- *)
\* The device session (iothubtransport_amqp_device) as the transport sees it.
\* Every change of the session's state is notified through
\* on_device_state_changed_callback before the call returns.
SessionNotify(ts, new_state, now) ==
    [ts EXCEPT !.d = on_device_state_changed_callback(@, ts.s.state, new_state, now),
               !.s.state = new_state]

StartOutcomes == {"session_handle_failed", "cbs_handle_failed", "start_failed", "started"}
StopOutcomes == {"failed", "stopping", "stopped"}

\* device_start_async
device_start_async(ts, outcome, now) ==
    LET called == [ts EXCEPT !.calls = Append(@, "device_start_async")]
    IN IF outcome = "started" /\ ts.s.state = "STOPPED"
       THEN [SessionNotify(called, "STARTING", now) EXCEPT !.result = RESULT_OK]
       ELSE [called EXCEPT !.result = FAILURE]

\* device_stop: a session that is stopped or stopping refuses; otherwise the
\* session goes to STOPPING and, unless the stop stays pending, to STOPPED.
device_stop(ts, outcome, now) ==
    LET called == [ts EXCEPT !.calls = Append(@, "device_stop")]
    IN IF outcome = "failed" \/ ts.s.state \in {"STOPPED", "STOPPING"}
       THEN [called EXCEPT !.result = FAILURE]
       ELSE IF outcome = "stopping"
       THEN [SessionNotify(called, "STOPPING", now) EXCEPT !.result = RESULT_OK]
       ELSE [SessionNotify(SessionNotify(called, "STOPPING", now), "STOPPED", now)
                EXCEPT !.result = RESULT_OK]

\* the link names a session receives messages on, and how the hand-off of
\* a received message ends
LinkNames == {"link-1", "link-2"}
MessageOutcomes == {"malloc_failed", "callback_failed", "delivered"}

\* what a device_do_work call can do in the session's state; the session
\* may notify the state it is already in
SessionEvents(s) ==
    {[kind |-> "none", to |-> s.state, result |-> NULL, source |-> NULL],
     [kind |-> "state", to |-> s.state, result |-> NULL, source |-> NULL]}
    \cup (IF s.state = "STARTING"
          THEN {[kind |-> "state", to |-> t, result |-> NULL, source |-> NULL] :
                    t \in {"STARTED", "ERROR_AUTH", "ERROR_AUTH_TIMEOUT"}}
          ELSE {})
    \cup (IF s.state = "STOPPING"
          THEN {[kind |-> "state", to |-> "STOPPED", result |-> NULL, source |-> NULL]}
          ELSE {})
    \cup (IF s.state = "STARTED"
          THEN {[kind |-> "state", to |-> "ERROR_MSG", result |-> NULL, source |-> NULL]}
          ELSE {})
    \cup (IF s.state = "STARTED" /\ s.in_flight # <<>>
          THEN {[kind |-> "complete", to |-> s.state, result |-> r, source |-> NULL] :
                    r \in D2C_EVENT_SEND_RESULT \ {"DEVICE_DESTROYED"}}
          ELSE {})
    \cup (IF s.state = "STARTED" /\ s.subscribed /\ Len(contexts) < MaxMessages
          THEN {[kind |-> "message", to |-> s.state, result |-> r, source |-> l] :
                    r \in MessageOutcomes, l \in LinkNames}
          ELSE {})

\* MESSAGE_CALLBACK_INFO_Create: messageHandle is the message's index, and
\* the transportContext holds a copy of the link name, the delivery id and
\* the pointer to the device instance (dangling once the instance is freed).
\* status tells whether the upper client holds the info and its message.
MESSAGE_CALLBACK_INFO_Create(message, disposition_info, device_state) ==
    [messageHandle |-> message,
     device_state |-> device_state, dangling |-> FALSE,
     link_name |-> disposition_info.source,
     message_id |-> disposition_info.message_id,
     status |-> "held"]

\* on_message_received: a failed allocation leaves nothing; a failed
\* IoTHubClient_LL_MessageCallback destroys the message and leaves the info
\* allocated; otherwise the upper client holds both.
on_message_received(c, ts, message, disposition_info, outcome) ==
    IF outcome = "malloc_failed" THEN ts
    ELSE LET message_data == MESSAGE_CALLBACK_INFO_Create(message, disposition_info, c)
         IN IF outcome = "callback_failed"
            THEN [ts EXCEPT !.ctx = Append(@, [message_data EXCEPT !.status = "leaked"])]
            ELSE [ts EXCEPT !.ctx = Append(@, message_data)]

\* device_do_work: the session changes state, completes its oldest event in
\* flight through on_event_send_complete, or delivers a message through
\* on_message_received with the next delivery id
device_do_work(c, ts, ev, now) ==
    CASE ev.kind = "state" -> SessionNotify(ts, ev.to, now)
      [] ev.kind = "complete" ->
            LET done == Confirmation(c, Head(ts.s.in_flight), ev.result, "session")
            IN [ts EXCEPT !.s.in_flight = Tail(@),
                          !.d = on_event_send_complete(@, ev.result),
                          !.conf = Append(@, done.message),
                          !.last = done]
      [] ev.kind = "message" ->
            on_message_received(c, ts, Len(ts.ctx) + 1,
                [source |-> ev.source, message_id |-> Len(ts.ctx) + 1], ev.result)
      [] OTHER -> ts

\* device_destroy: the events still in flight are completed, oldest first,
\* with DEVICE_DESTROYED
RECURSIVE device_destroy(_, _)
device_destroy(c, ts) ==
    IF ts.s.in_flight = <<>> THEN ts
    ELSE LET done == Confirmation(c, Head(ts.s.in_flight), "DEVICE_DESTROYED", "destroy")
         IN device_destroy(c, [ts EXCEPT !.s.in_flight = Tail(@),
                                         !.d = on_event_send_complete(@, "DEVICE_DESTROYED"),
                                         !.conf = Append(@, done.message),
                                         !.last = done])

\* device_set_option: the session keeps the value under the option's name
\* unless it refuses the option (ok false)
device_set_option(s, name, value, ok) ==
    IF ok THEN [s EXCEPT !.options[name] = value] ELSE s

(* -------------------------- per-device tick --------------------------- *)
\* a budget test that would allow one failure more
DeviceFailuresExceededMore(number_of_failures) ==
    number_of_failures > MAX_NUMBER_OF_DEVICE_FAILURES

\* the budget test of the error branch
DeviceFailuresExceeded(number_of_failures) ==
    number_of_failures >= MAX_NUMBER_OF_DEVICE_FAILURES

\* a DEVICE_STATE_STOPPED branch that would obtain the handles and never
\* call device_start_async
StartDeviceWithoutStart(ts, outcome, now) ==
    IF outcome = "session_handle_failed" THEN [ts EXCEPT !.result = FAILURE]
    ELSE IF preferred_authentication_mode = "CBS" /\ outcome = "cbs_handle_failed"
    THEN [ts EXCEPT !.result = FAILURE]
    ELSE [ts EXCEPT !.result = RESULT_OK]

\* a DEVICE_STATE_STOPPED branch that would count a failed start
StartDeviceCounting(ts, outcome, now) ==
    LET started ==
            IF outcome = "session_handle_failed" THEN [ts EXCEPT !.result = FAILURE]
            ELSE IF preferred_authentication_mode = "CBS" /\ outcome = "cbs_handle_failed"
            THEN [ts EXCEPT !.result = FAILURE]
            ELSE device_start_async(ts, outcome, now)
    IN IF started.result # RESULT_OK
       THEN [started EXCEPT !.d.number_of_previous_failures = @ + 1]
       ELSE started

\* the DEVICE_STATE_STOPPED branch
StartDevice(ts, outcome, now) ==
    IF outcome = "session_handle_failed" THEN [ts EXCEPT !.result = FAILURE]
    ELSE IF preferred_authentication_mode = "CBS" /\ outcome = "cbs_handle_failed"
    THEN [ts EXCEPT !.result = FAILURE]
    ELSE device_start_async(ts, outcome, now)

\* a timeout check that would record the forced error as a state change
CheckStateChangeTimeoutRecorded(ts, current_time) ==
    LET t == is_timeout_reached(ts.d.time_of_last_state_change,
                                ts.d.max_state_change_timeout_secs, current_time)
    IN IF t.result # RESULT_OK \/ t.is_timed_out
       THEN [ts EXCEPT !.d = on_device_state_changed_callback(
                                 @, ts.d.device_state, "ERROR_AUTH", current_time),
                       !.result = FAILURE]
       ELSE [ts EXCEPT !.result = RESULT_OK]

\* the DEVICE_STATE_STARTING / DEVICE_STATE_STOPPING branch
CheckStateChangeTimeout(ts, current_time) ==
    LET t == is_timeout_reached(ts.d.time_of_last_state_change,
                                ts.d.max_state_change_timeout_secs, current_time)
    IN IF t.result # RESULT_OK
       THEN [ts EXCEPT !.d.device_state = "ERROR_AUTH", !.result = FAILURE]
       ELSE IF t.is_timed_out
       THEN [ts EXCEPT !.d.device_state = "ERROR_AUTH", !.result = FAILURE]
       ELSE [ts EXCEPT !.result = RESULT_OK]

\* an error branch that would stop the device whatever the count
StopFailedDeviceAlways(ts, outcome, now) ==
    LET counted == [ts EXCEPT !.d.number_of_previous_failures = @ + 1]
        stopped == device_stop(counted, outcome, now)
    IN IF DeviceFailuresExceeded(counted.d.number_of_previous_failures)
       THEN [stopped EXCEPT !.result = FAILURE]
       ELSE stopped

\* the branch of the three error states
StopFailedDevice(ts, outcome, now) ==
    LET counted == [ts EXCEPT !.d.number_of_previous_failures = @ + 1]
    IN IF DeviceFailuresExceeded(counted.d.number_of_previous_failures)
       THEN [counted EXCEPT !.result = FAILURE]
       ELSE device_stop(counted, outcome, now)

\* a DEVICE_STATE_STARTED branch that would only ever count failures
SendEventsCountOnly(c, ts, accepted) ==
    LET sent == send_pending_events(c, ts, accepted)
    IN IF sent.result # RESULT_OK
       THEN [sent EXCEPT !.d.number_of_previous_failures = @ + 1]
       ELSE sent

\* the DEVICE_STATE_STARTED branch
SendEvents(c, ts, accepted) ==
    LET sent == send_pending_events(c, ts, accepted)
    IN IF sent.result # RESULT_OK
       THEN [sent EXCEPT !.d.number_of_previous_failures = @ + 1]
       ELSE [sent EXCEPT !.d.number_of_previous_failures = 0]

\* the inputs of one per-device tick: what the collaborators answer
TickInputs(c) ==
    [start : StartOutcomes, stop : StopOutcomes,
     current_time : CurrentTimes, now : StateChangeTimes,
     accepted : 0..Len(waiting_to_send[c])]

\* IoTHubTransport_AMQP_Common_Device_DoWork, up to its device_do_work call
DeviceBranch(c, ts, in) ==
    IF ts.d.device_state # "STARTED"
    THEN IF ts.d.device_state = "STOPPED"
         THEN StartDevice(ts, in.start, in.now)
         ELSE IF ts.d.device_state \in {"STARTING", "STOPPING"}
         THEN CheckStateChangeTimeout(ts, in.current_time)
         ELSE StopFailedDevice(ts, in.stop, in.now)
    ELSE SendEvents(c, ts, in.accepted)

\* only the inputs the branch taken reads are varied
RelevantInputs(c) ==
    LET st == dev[c].device_state
    IN {in \in TickInputs(c) :
          /\ (st # "STOPPED" => in.start = "started")
          /\ (st \notin {"ERROR_AUTH", "ERROR_AUTH_TIMEOUT", "ERROR_MSG"}
                 => in.stop = "stopped")
          /\ (st \notin {"STARTING", "STOPPING"} => in.current_time = 0)
          /\ (st # "STARTED" => in.accepted = 0)
          /\ (st = "STOPPED" /\ preferred_authentication_mode # "CBS"
                 => in.start # "cbs_handle_failed")}

\* IoTHubTransport_AMQP_Common_Device_DoWork: the branch, then device_do_work;
\* the result is the branch's
IoTHubTransport_AMQP_Common_Device_DoWork(c, ts, in, ev) ==
    LET branched == DeviceBranch(c, ts, in)
    IN [device_do_work(c, branched, ev, in.now) EXCEPT
           !.result = branched.result,
           !.calls = Append(@, "device_do_work")]

(* ----------------------------- connection ----------------------------- *)
\* the connection amqp_connection_create builds for the preferred mode
\* (create_sasl_io and create_cbs_connection both true, or both false)
ConnectionFor(mode) == IF mode = "CBS" THEN "CONNECTION_SASL_CBS" ELSE "CONNECTION_PLAIN"

\* a callback that would save the new state and never ask for a retry
connection_state_saved_only(state, retry, previous_state, new_state) ==
    [state |-> new_state, retry |-> retry]

\* on_amqp_connection_state_changed: [state, retry]
on_amqp_connection_state_changed(state, retry, previous_state, new_state) ==
    IF new_state # previous_state
    THEN [state |-> new_state,
          retry |-> IF new_state = "ERROR" THEN TRUE ELSE retry]
    ELSE [state |-> state, retry |-> retry]

\* The OPTIONHANDLER_HANDLE xio_retrieveoptions returns (NULL: it failed).
\* The handles are told apart by the call that retrieved them: in SetOption,
\* after an option was set on the stream, or in the connection retry, from
\* the stream about to be destroyed.
RetrievedOptions == {"OPTIONS", "OPTIONS_AT_RETRY"}
xio_retrieveoptions(retrieve_ok, handle) == IF retrieve_ok THEN handle ELSE NULL

\* a save that would keep the options it has cached already
save_underlying_io_transport_options_once(io, saved, retrieve_ok, handle) ==
    IF io = NULL THEN saved
    ELSE IF saved # NULL THEN saved
    ELSE LET fresh_options == xio_retrieveoptions(retrieve_ok, handle)
         IN IF fresh_options = NULL THEN saved ELSE fresh_options

\* save_underlying_io_transport_options: the cache afterwards
save_underlying_io_transport_options(io, saved, retrieve_ok, handle) ==
    IF io = NULL THEN saved
    ELSE LET fresh_options == xio_retrieveoptions(retrieve_ok, handle)
         IN IF fresh_options = NULL THEN saved ELSE fresh_options

\* restore_underlying_io_transport_options: [result, fed]; fed is the handle
\* passed to OptionHandler_FeedOptions (NULL: it is not called)
restore_underlying_io_transport_options(saved, feed_ok) ==
    IF saved = NULL
    THEN [result |-> RESULT_OK, fed |-> NULL]
    ELSE [result |-> IF feed_ok THEN RESULT_OK ELSE FAILURE, fed |-> saved]

\* a provider call that would give up the stream whose options are not restored
get_new_underlying_io_transport_or_fail(saved, provider_ok, feed_ok) ==
    IF ~provider_ok
    THEN [result |-> FAILURE, xio_handle |-> NULL, fed |-> NULL, restored |-> NULL]
    ELSE LET restored == restore_underlying_io_transport_options(saved, feed_ok)
         IN [result |-> restored.result,
             xio_handle |-> IF restored.result = RESULT_OK THEN "XIO" ELSE NULL,
             fed |-> restored.fed, restored |-> restored.result]

\* get_new_underlying_io_transport: [result, xio_handle, fed, restored];
\* restored is what restore_underlying_io_transport_options returned
get_new_underlying_io_transport(saved, provider_ok, feed_ok) ==
    IF ~provider_ok
    THEN [result |-> FAILURE, xio_handle |-> NULL, fed |-> NULL, restored |-> NULL]
    ELSE LET restored == restore_underlying_io_transport_options(saved, feed_ok)
         IN [result |-> RESULT_OK, xio_handle |-> "XIO",
             fed |-> restored.fed, restored |-> restored.result]

\* the AMQP_CONNECTION_CONFIG establish_amqp_connection fills in for the
\* preferred mode, which is CBS or X509 where it is filled in
NoConfig == [create_sasl_io |-> NULL, create_cbs_connection |-> NULL]
\* a config that would ask for SASL and CBS whatever the mode
amqp_connection_config_with_cbs(mode) ==
    [create_sasl_io |-> TRUE, create_cbs_connection |-> TRUE]

\* amqp_connection_config
amqp_connection_config(mode) ==
    IF mode = "CBS"
    THEN [create_sasl_io |-> TRUE, create_cbs_connection |-> TRUE]
    ELSE [create_sasl_io |-> FALSE, create_cbs_connection |-> FALSE]

\* establish_amqp_connection: [result, tls_io, amqp_connection,
\* amqp_connection_state], the calls it makes on its collaborators in their
\* order, the options handle fed to a new stream, what restoring the options
\* returned, and the config passed to amqp_connection_create
establish_amqp_connection(provider_ok, feed_ok, create_ok) ==
    IF preferred_authentication_mode = "NOT_SET"
    THEN [result |-> FAILURE, tls_io |-> tls_io, amqp_connection |-> amqp_connection,
          amqp_connection_state |-> amqp_connection_state,
          calls |-> <<>>, fed |-> NULL, restored |-> NULL, config |-> NoConfig]
    ELSE LET new == IF tls_io = NULL
                    THEN get_new_underlying_io_transport(
                             saved_tls_options, provider_ok, feed_ok)
                    ELSE [result |-> RESULT_OK, xio_handle |-> tls_io,
                          fed |-> NULL, restored |-> NULL]
             asked == IF tls_io = NULL
                      THEN <<"underlying_io_transport_provider">>
                               \o (IF new.fed # NULL
                                   THEN <<"OptionHandler_FeedOptions">> ELSE <<>>)
                      ELSE <<>>
         IN IF new.result # RESULT_OK
            THEN [result |-> FAILURE, tls_io |-> new.xio_handle,
                  amqp_connection |-> amqp_connection,
                  amqp_connection_state |-> amqp_connection_state,
                  calls |-> asked, fed |-> new.fed, restored |-> new.restored,
                  config |-> NoConfig]
            ELSE [result |-> IF create_ok THEN RESULT_OK ELSE FAILURE,
                  tls_io |-> new.xio_handle,
                  amqp_connection |->
                      IF create_ok THEN ConnectionFor(preferred_authentication_mode)
                      ELSE NULL,
                  amqp_connection_state |-> "CLOSED",
                  calls |-> Append(asked, "amqp_connection_create"),
                  fed |-> new.fed, restored |-> new.restored,
                  config |-> amqp_connection_config(preferred_authentication_mode)]

\* a preparation that would stop the device whatever its state
stop_device_for_connection_retry(ts, outcome, now) ==
    [device_stop(ts, outcome, now) EXCEPT
        !.d.number_of_previous_failures = 0,
        !.d.number_of_send_event_complete_failures = 0]

\* prepare_device_for_connection_retry
prepare_device_for_connection_retry(ts, outcome, now) ==
    LET stopped == IF ts.d.device_state # "STOPPED"
                   THEN device_stop(ts, outcome, now) ELSE ts
    IN [stopped EXCEPT !.d.number_of_previous_failures = 0,
                       !.d.number_of_send_event_complete_failures = 0]

\* a retry that would leave the recorded connection state as it is
StateKeptByRetry == amqp_connection_state

\* the connection state prepare_for_connection_retry leaves
StateAfterRetry == "CLOSED"

(* ------------------------------- Init --------------------------------- *)
\* IoTHubTransport_AMQP_Common_Create zeroes the instance; the connection
\* state a zeroed instance holds
InitialConnectionState == "CLOSED"

\* the device-specific options IoTHubTransport_AMQP_Common_Create stores
DefaultOptions ==
    [option_sas_token_lifetime_secs |-> DEFAULT_SAS_TOKEN_LIFETIME_SECS,
     option_sas_token_refresh_time_secs |-> DEFAULT_SAS_TOKEN_REFRESH_TIME_SECS,
     option_cbs_request_timeout_secs |-> DEFAULT_CBS_REQUEST_TIMEOUT_SECS,
     option_send_event_timeout_secs |-> DEFAULT_EVENT_SEND_TIMEOUT_SECS]

Init ==
    /\ tls_io = NULL
    /\ saved_tls_options = NULL
    /\ amqp_connection = NULL
    /\ amqp_connection_state = InitialConnectionState
    /\ preferred_authentication_mode = "NOT_SET"
    /\ registered_devices = <<>>
    /\ is_connection_retry_required = FALSE
    /\ dev = [c \in Clients |-> NoDevice]
    /\ session = [c \in Clients |-> NoSession]
    /\ waiting_to_send = [c \in Clients |-> <<>>]
    /\ confirmations = [c \in Clients |-> <<>>]
    /\ last_confirmation = NoConfirmation
    /\ contexts = <<>>
    /\ last_disposition = NoDisposition
    /\ pc = "idle"
    /\ list_item = 0
    /\ last_freed_access = 0
    /\ device_specific_options = DefaultOptions

(* ------------------------- register / unregister ---------------------- *)
\* the device ids client c can pass to Register: its own buffer holding any
\* id, the buffer of an id the transport stores, or NULL
DeviceIdArguments(c) ==
    {[ptr |-> CallerBuffer(c), chars |-> id] : id \in DeviceIds}
    \cup {dev[r].device_id : r \in Range(registered_devices)}
    \cup {NoString}

\* a replication that would set no option on the new device session
replicate_no_device_options(s, auth_mode, options) == s

\* replicate_device_options_to, every device_set_option call succeeding: the
\* session of the new device with the transport's values; the three options
\* of the CBS authentication are set only on a device that authenticates
\* with CBS.  (A refused option fails the registration, which destroys the
\* session.)
replicate_device_options_to(s, auth_mode, options) ==
    LET timed == device_set_option(s, "DEVICE_OPTION_EVENT_SEND_TIMEOUT_SECS",
                                   options.option_send_event_timeout_secs, TRUE)
    IN IF auth_mode = "CBS"
       THEN device_set_option(
                device_set_option(
                    device_set_option(
                        timed, "DEVICE_OPTION_CBS_REQUEST_TIMEOUT_SECS",
                        options.option_cbs_request_timeout_secs, TRUE),
                    "DEVICE_OPTION_SAS_TOKEN_LIFETIME_SECS",
                    options.option_sas_token_lifetime_secs, TRUE),
                "DEVICE_OPTION_SAS_TOKEN_REFRESH_TIME_SECS",
                options.option_sas_token_refresh_time_secs, TRUE)
       ELSE timed

RegisterFailures ==
    {"none", "malloc", "STRING_construct", "device_create",
     "replicate_device_options_to", "singlylinkedlist_add"}

\* a registration that would leave the preferred mode as it is
ModeKeptByRegister(preferred, is_first_device_being_registered, authentication_mode) ==
    preferred

\* the preferred mode after a device was added to the list
ModeAfterRegister(preferred, is_first_device_being_registered, authentication_mode) ==
    IF preferred = "NOT_SET" /\ is_first_device_being_registered
    THEN authentication_mode
    ELSE preferred

\* a clean-up of a failed registration that would leave the new device
\* instance and its session behind
LeftBehind(before, built, c, block) == built

\* the clean-up of a failed registration: internal_destroy_amqp_device_instance
\* destroys the session the new instance has and frees the instance, so the
\* block it was given is free again
ReleasedAfterFailure(before, built, c, block) ==
    [built EXCEPT !.dev = [x \in Clients |->
                              IF x = c \/ x = block THEN before.dev[x] ELSE @[x]],
                  !.session = [@ EXCEPT ![c] = NoSession]]

\* The body of Register for client c: the handle it returns (result: the
\* client whose slot holds the new instance, or 0 for NULL) and the registry, the
\* device instances, the sessions and the preferred mode it leaves.  failure
\* names the step that fails, block the block malloc returns.
Register(c, deviceId, deviceKey, deviceSasToken, failure, block) ==
    LET before == [result |-> 0, dev |-> dev, session |-> session,
                   registered_devices |-> registered_devices,
                   preferred_authentication_mode |-> preferred_authentication_mode]
        authentication_mode == DeviceAuthMode(deviceKey, deviceSasToken)
        \* malloc, memset and the first fields
        allocated ==
            [before EXCEPT
                !.dev = [x \in Clients |->
                           IF x = c
                           THEN [NoDevice EXCEPT
                                    !.max_state_change_timeout_secs =
                                        DEFAULT_DEVICE_STATE_CHANGE_TIMEOUT_SECS]
                           ELSE IF x = block THEN FreedDevice(c)
                           ELSE dev[x]]]
        named == [allocated EXCEPT
                     !.dev[c].device_id = STRING_construct(c, deviceId)]
        created == [named EXCEPT
                       !.session[c] =
                           [state |-> "STOPPED", in_flight |-> <<>>,
                            subscribed |-> FALSE,
                            authentication_mode |-> authentication_mode,
                            options |-> NoOptions]]
        replicated == [created EXCEPT
                          !.session[c] =
                              replicate_device_options_to(
                                  @, authentication_mode, device_specific_options)]
        added == [replicated EXCEPT
                     !.registered_devices = Append(@, c),
                     !.preferred_authentication_mode =
                         ModeAfterRegister(@, registered_devices = <<>>,
                                           authentication_mode),
                     !.result = c]
    IN IF deviceId.chars = NULL THEN before
       ELSE IF is_device_registered_ex(registered_devices, deviceId) # 0 THEN before
       ELSE IF ~is_device_credential_acceptable(deviceKey, deviceSasToken,
                                                preferred_authentication_mode)
       THEN before
       ELSE IF failure = "malloc" THEN before
       ELSE IF failure = "STRING_construct"
       THEN ReleasedAfterFailure(before, allocated, c, block)
       ELSE IF failure = "device_create"
       THEN ReleasedAfterFailure(before, named, c, block)
       ELSE IF failure = "replicate_device_options_to"
       THEN ReleasedAfterFailure(before, created, c, block)
       ELSE IF failure = "singlylinkedlist_add"
       THEN ReleasedAfterFailure(before, replicated, c, block)
       ELSE added

IoTHubTransport_AMQP_Common_Register(c, deviceId, deviceKey, deviceSasToken, failure, block) ==
    /\ pc = "idle"
    /\ ~IsRegistered(c)
    /\ block \in FreeBlocks(c)
    /\ LET after == Register(c, deviceId, deviceKey, deviceSasToken, failure, block)
       IN /\ dev' = after.dev
          /\ session' = after.session
          /\ registered_devices' = after.registered_devices
          /\ preferred_authentication_mode' = after.preferred_authentication_mode
    /\ UNCHANGED <<tls_io, saved_tls_options, amqp_connection, amqp_connection_state,
                   is_connection_retry_required, waiting_to_send, confirmations,
                   contexts, pc, list_item, device_specific_options>>
    /\ last_confirmation' = NoConfirmation
    /\ last_disposition' = NoDisposition
    /\ last_freed_access' = 0

\* the MESSAGE_CALLBACK_INFOs once the device instances of these clients are
\* freed: the device_state pointers of those the upper client holds dangle
Freed(infos, clients) ==
    [k \in 1..Len(infos) |->
        IF infos[k].device_state \in clients /\ infos[k].status = "held"
        THEN [infos[k] EXCEPT !.dangling = TRUE]
        ELSE infos[k]]

\* internal_destroy_amqp_device_instance: device_destroy, then the instance
\* is freed
internal_destroy_amqp_device_instance(c) ==
    LET ts == device_destroy(c, TickState(c))
    IN /\ dev' = AfterFree(dev, c)
       /\ session' = [session EXCEPT ![c] = NoSession]
       /\ confirmations' = [confirmations EXCEPT ![c] = ts.conf]
       /\ last_confirmation' = ts.last
       /\ contexts' = Freed(contexts, {c})
       /\ last_disposition' = NoDisposition

\* the device instance a handle of client c points to: the client's own
\* instance, or, for a handle to a freed instance, whatever occupies the
\* block now (0: free memory, in which no registered device id is found)
InstanceAt(c) ==
    IF ~IsFreed(c) THEN c ELSE dev[c].device_id.ptr.of

\* IoTHubTransport_AMQP_Common_Unregister with the handle client c holds
IoTHubTransport_AMQP_Common_Unregister(c) ==
    /\ pc = "idle"
    /\ IsRegistered(c) \/ IsFreed(c)
    /\ LET registered_device == InstanceAt(c)
           found == IF registered_device = 0 THEN 0
                    ELSE is_device_registered_ex(
                             registered_devices,
                             STRING_c_str(dev[registered_device].device_id))
       IN IF found = 0
          THEN /\ last_freed_access' = IF IsFreed(c) THEN c ELSE 0
               /\ last_confirmation' = NoConfirmation
               /\ last_disposition' = NoDisposition
               /\ UNCHANGED <<tls_io, saved_tls_options, amqp_connection,
                              amqp_connection_state, preferred_authentication_mode,
                              device_specific_options,
                              registered_devices, is_connection_retry_required,
                              dev, session, waiting_to_send, confirmations,
                              contexts, pc, list_item>>
          ELSE /\ registered_devices' = RemoveAt(registered_devices, found)
               /\ internal_destroy_amqp_device_instance(registered_device)
               /\ last_freed_access' = IF IsFreed(c) THEN c ELSE 0
               /\ UNCHANGED <<tls_io, saved_tls_options, amqp_connection,
                              amqp_connection_state, preferred_authentication_mode,
                              device_specific_options,
                              is_connection_retry_required, waiting_to_send,
                              pc, list_item>>

(* ------------------------------ set option ---------------------------- *)
\* options not handled by the transport or its devices go to the stream
StreamOptions == {"x509certificate", "x509privatekey", "other"}

\* an x509 test that would set the mode whatever it was before
ModeForcedBySetOption(preferred, option) ==
    IF option \in {"x509certificate", "x509privatekey"} THEN "X509" ELSE preferred

\* an x509 test that would never set the mode
ModeKeptBySetOption(preferred, option) == preferred

\* the preferred mode after the x509 test of SetOption
ModeAfterSetOption(preferred, option) ==
    IF option \in {"x509certificate", "x509privatekey"} /\ preferred = "NOT_SET"
    THEN "X509"
    ELSE preferred

\* an x509 test that would never end in IOTHUB_CLIENT_INVALID_ARG
SetOptionNeverInvalidArg(preferred, option) == FALSE

\* whether the x509 test of SetOption ends in IOTHUB_CLIENT_INVALID_ARG
SetOptionInvalidArg(preferred, option) ==
    /\ option \in {"x509certificate", "x509privatekey"}
    /\ preferred # "NOT_SET"
    /\ preferred # "X509"

\* get_device_option_name_from
get_device_option_name_from(iothubclient_option_name) ==
    CASE iothubclient_option_name = "sas_token_lifetime" ->
            "DEVICE_OPTION_SAS_TOKEN_LIFETIME_SECS"
      [] iothubclient_option_name = "sas_token_refresh_time" ->
            "DEVICE_OPTION_SAS_TOKEN_REFRESH_TIME_SECS"
      [] iothubclient_option_name = "cbs_request_timeout" ->
            "DEVICE_OPTION_CBS_REQUEST_TIMEOUT_SECS"
      [] iothubclient_option_name = "event_send_timeout_secs" ->
            "DEVICE_OPTION_EVENT_SEND_TIMEOUT_SECS"
      [] OTHER -> NULL

\* IoTHubTransport_AMQP_Common_Device_SetOption: [result, session].  The
\* registered devices are visited in list order; refused_at is the position
\* of the first device whose session refuses the option (0: none does), at
\* which the loop breaks.
IoTHubTransport_AMQP_Common_Device_SetOption(option, value, refused_at) ==
    LET device_option == get_device_option_name_from(option)
    IN IF device_option = NULL
       THEN [result |-> FAILURE, session |-> session]
       ELSE [result |-> IF refused_at = 0 THEN RESULT_OK ELSE FAILURE,
             session |->
                 [c \in Clients |->
                     IF \E i \in 1..Len(registered_devices) :
                           /\ registered_devices[i] = c
                           /\ (refused_at = 0 \/ i < refused_at)
                     THEN device_set_option(session[c], device_option, value, TRUE)
                     ELSE session[c]]]

\* the transport's fields once SetOption has saved a device-specific option
SavedOption(options, option, value) ==
    CASE option = "sas_token_lifetime" ->
            [options EXCEPT !.option_sas_token_lifetime_secs = value]
      [] option = "sas_token_refresh_time" ->
            [options EXCEPT !.option_sas_token_refresh_time_secs = value]
      [] option = "cbs_request_timeout" ->
            [options EXCEPT !.option_cbs_request_timeout_secs = value]
      [] option = "event_send_timeout_secs" ->
            [options EXCEPT !.option_send_event_timeout_secs = value]
      [] OTHER -> options

\* The body of SetOption for a device-specific option: the value is saved,
\* then applied to the registered devices; the code it returns, the
\* transport's options and the device sessions it leaves.
SetDeviceSpecificOption(option, value, refused_at) ==
    LET applied == IoTHubTransport_AMQP_Common_Device_SetOption(
                       option, value, refused_at)
    IN [result |-> IF applied.result # RESULT_OK
                   THEN "IOTHUB_CLIENT_ERROR" ELSE "IOTHUB_CLIENT_OK",
        device_specific_options |->
            SavedOption(device_specific_options, option, value),
        session |-> applied.session]

IoTHubTransport_AMQP_Common_SetOption_DeviceSpecific(option, value, refused_at) ==
    /\ pc = "idle"
    /\ LET after == SetDeviceSpecificOption(option, value, refused_at)
       IN /\ device_specific_options' = after.device_specific_options
          /\ session' = after.session
    /\ UNCHANGED <<tls_io, saved_tls_options, amqp_connection, amqp_connection_state,
                   preferred_authentication_mode, registered_devices,
                   is_connection_retry_required, dev, waiting_to_send,
                   confirmations, contexts, pc, list_item>>
    /\ last_confirmation' = NoConfirmation
    /\ last_disposition' = NoDisposition
    /\ last_freed_access' = 0

\* The body of SetOption for an option handled by neither the transport nor
\* its devices: the code it returns, the mode, the stream and the cached
\* options it leaves, whether it asked the provider for a stream (created)
\* and whether it passed the option to the stream (forwarded).
SetOption(option, provider_ok, feed_ok, setoption_ok, retrieve_ok) ==
    LET checked ==
            [result |-> IF SetOptionInvalidArg(preferred_authentication_mode, option)
                        THEN "IOTHUB_CLIENT_INVALID_ARG" ELSE "IOTHUB_CLIENT_OK",
             preferred_authentication_mode |->
                 ModeAfterSetOption(preferred_authentication_mode, option),
             tls_io |-> tls_io,
             saved_tls_options |-> saved_tls_options,
             created |-> FALSE,
             fed |-> NULL,
             restored |-> NULL,
             forwarded |-> FALSE]
        new == IF tls_io = NULL
               THEN get_new_underlying_io_transport(
                        saved_tls_options, provider_ok, feed_ok)
               ELSE [result |-> RESULT_OK, xio_handle |-> tls_io,
                     fed |-> NULL, restored |-> NULL]
        asked == [checked EXCEPT !.tls_io = new.xio_handle,
                                 !.created = (tls_io = NULL),
                                 !.fed = new.fed,
                                 !.restored = new.restored]
    IN IF checked.result = "IOTHUB_CLIENT_INVALID_ARG" THEN checked
       ELSE IF new.result # RESULT_OK
       THEN [asked EXCEPT !.result = "IOTHUB_CLIENT_ERROR"]
       ELSE IF ~setoption_ok
       THEN [asked EXCEPT !.result = "IOTHUB_CLIENT_ERROR", !.forwarded = TRUE]
       ELSE [asked EXCEPT !.forwarded = TRUE,
                          !.saved_tls_options =
                              save_underlying_io_transport_options(
                                  new.xio_handle, saved_tls_options, retrieve_ok,
                                  "OPTIONS")]

IoTHubTransport_AMQP_Common_SetOption(option, provider_ok, feed_ok, setoption_ok, retrieve_ok) ==
    /\ pc = "idle"
    /\ LET after == SetOption(option, provider_ok, feed_ok, setoption_ok, retrieve_ok)
       IN /\ preferred_authentication_mode' = after.preferred_authentication_mode
          /\ tls_io' = after.tls_io
          /\ saved_tls_options' = after.saved_tls_options
    /\ UNCHANGED <<amqp_connection, amqp_connection_state, registered_devices,
                   is_connection_retry_required, dev, session, waiting_to_send,
                   confirmations, contexts, pc, list_item, device_specific_options>>
    /\ last_confirmation' = NoConfirmation
    /\ last_disposition' = NoDisposition
    /\ last_freed_access' = 0

(* ------------------------------ enqueue ------------------------------- *)
\* The upper client appends an event to the waiting-to-send list it gave to
\* Register.  Events of one client are numbered in the order it enqueues them.
EventsOf(c) ==
    Len(waiting_to_send[c]) + Len(session[c].in_flight) + Len(confirmations[c])

Enqueue(c, limit) ==
    /\ pc = "idle"
    /\ IsRegistered(c)
    /\ EventsOf(c) < limit
    /\ waiting_to_send' = [waiting_to_send EXCEPT ![c] = Append(@, EventsOf(c) + 1)]
    /\ UNCHANGED <<tls_io, saved_tls_options, amqp_connection, amqp_connection_state,
                   preferred_authentication_mode,
                   device_specific_options, registered_devices,
                   is_connection_retry_required, dev, session, confirmations,
                   contexts, pc, list_item>>
    /\ last_confirmation' = NoConfirmation
    /\ last_disposition' = NoDisposition
    /\ last_freed_access' = 0

(* ------------------------------- do work ------------------------------ *)
\* where DoWork goes once the registry part is over: amqp_connection_do_work
\* is called if a connection exists
AfterDevices(connection) ==
    IF connection # NULL THEN "amqp_connection_do_work" ELSE "idle"

\* a driver that would never take the connection-retry branch
RetryBranchNever(retry_required) == FALSE

\* whether DoWork takes its connection-retry branch
RetryBranch(retry_required) == retry_required

\* a driver that would iterate over the devices in any connection state
ConnectionOpenedOrNot(state) == TRUE

\* whether DoWork iterates over the registered devices
ConnectionOpened(state) == state = "OPENED"

\* prepare_for_connection_retry, its loop over the registered devices
RetryDevices(stops, now) ==
    [c \in Clients |->
        IF IsRegistered(c)
        THEN prepare_device_for_connection_retry(TickState(c), stops[c], now)
        ELSE TickState(c)]

\* prepare_for_connection_retry: the cached options, the devices, the
\* connection and the stream it leaves, and the order (calls) in which it
\* destroys the connection and the stream
prepare_for_connection_retry(stops, now, retrieve_ok) ==
    [saved_tls_options |->
         save_underlying_io_transport_options(
             tls_io, saved_tls_options, retrieve_ok, "OPTIONS_AT_RETRY"),
     devices |-> RetryDevices(stops, now),
     amqp_connection |-> NULL,
     amqp_connection_state |-> StateAfterRetry,
     tls_io |-> NULL,
     calls |-> <<"amqp_connection_destroy">>
                   \o (IF tls_io # NULL THEN <<"xio_destroy">> ELSE <<>>)]

\* DoWork with is_connection_retry_required set: prepare_for_connection_retry,
\* the flag is cleared, and no connection is left to do work on
DoWork_Retry(stops, now, retrieve_ok) ==
    /\ pc = "idle"
    /\ RetryBranch(is_connection_retry_required)
    /\ LET after == prepare_for_connection_retry(stops, now, retrieve_ok)
       IN /\ saved_tls_options' = after.saved_tls_options
          /\ dev' = [c \in Clients |-> after.devices[c].d]
          /\ session' = [c \in Clients |-> after.devices[c].s]
          /\ amqp_connection' = after.amqp_connection
          /\ amqp_connection_state' = after.amqp_connection_state
          /\ tls_io' = after.tls_io
    /\ is_connection_retry_required' = FALSE
    /\ pc' = AfterDevices(NULL)
    /\ last_confirmation' = NoConfirmation
    /\ last_disposition' = NoDisposition
    /\ last_freed_access' = 0
    /\ UNCHANGED <<preferred_authentication_mode,
                   device_specific_options, registered_devices,
                   waiting_to_send, confirmations, contexts, list_item>>

\* what DoWork does about the connection when no retry is pending: nothing
\* without a registered device or with a connection, otherwise
\* establish_amqp_connection
DoWork_Connect(provider_ok, feed_ok, create_ok) ==
    IF registered_devices # <<>> /\ amqp_connection = NULL
    THEN establish_amqp_connection(provider_ok, feed_ok, create_ok)
    ELSE [result |-> RESULT_OK, tls_io |-> tls_io, amqp_connection |-> amqp_connection,
          amqp_connection_state |-> amqp_connection_state,
          calls |-> <<>>, fed |-> NULL, restored |-> NULL, config |-> NoConfig]

\* DoWork without a retry pending, up to the loop over the devices
DoWork_Begin(provider_ok, feed_ok, create_ok) ==
    /\ pc = "idle"
    /\ ~RetryBranch(is_connection_retry_required)
    /\ LET e == DoWork_Connect(provider_ok, feed_ok, create_ok)
       IN /\ tls_io' = e.tls_io
          /\ amqp_connection' = e.amqp_connection
          /\ amqp_connection_state' = e.amqp_connection_state
          /\ IF /\ registered_devices # <<>>
                /\ e.result = RESULT_OK
                /\ ConnectionOpened(e.amqp_connection_state)
             THEN pc' = "devices" /\ list_item' = 1
             ELSE pc' = AfterDevices(e.amqp_connection) /\ UNCHANGED list_item
    /\ UNCHANGED <<saved_tls_options, preferred_authentication_mode,
                   device_specific_options,
                   registered_devices, is_connection_retry_required, dev, session,
                   waiting_to_send, confirmations, contexts>>
    /\ last_confirmation' = NoConfirmation
    /\ last_disposition' = NoDisposition
    /\ last_freed_access' = 0

\* the device the iterator is at
CurrentDevice == registered_devices[list_item]

\* a driver that would give every device its tick
SkipsNoDevice(c) == FALSE

\* the driver gives the device no tick: its events completed with failures
\* too often
SkipsDevice(c) ==
    dev[c].number_of_send_event_complete_failures >= MAX_NUMBER_OF_DEVICE_FAILURES

\* one turn of the loop over the registered devices
DoWork_Device(in, ev) ==
    /\ pc = "devices"
    /\ LET c == CurrentDevice
       IN IF SkipsDevice(c)
          THEN /\ is_connection_retry_required' = TRUE
               /\ last_confirmation' = NoConfirmation
               /\ UNCHANGED <<dev, session, waiting_to_send, confirmations,
                              contexts>>
          ELSE LET ts == IoTHubTransport_AMQP_Common_Device_DoWork(c, TickState(c), in, ev)
               IN /\ dev' = [dev EXCEPT ![c] = ts.d]
                  /\ session' = [session EXCEPT ![c] = ts.s]
                  /\ waiting_to_send' = [waiting_to_send EXCEPT ![c] = ts.w]
                  /\ confirmations' = [confirmations EXCEPT ![c] = ts.conf]
                  /\ last_confirmation' = ts.last
                  /\ contexts' = ts.ctx
                  /\ is_connection_retry_required' =
                         IF /\ ts.result # RESULT_OK
                            /\ ts.d.number_of_previous_failures
                                   >= MAX_NUMBER_OF_DEVICE_FAILURES
                         THEN TRUE
                         ELSE is_connection_retry_required
    /\ IF list_item < Len(registered_devices)
       THEN list_item' = list_item + 1 /\ pc' = "devices"
       ELSE list_item' = 0 /\ pc' = AfterDevices(amqp_connection)
    /\ last_disposition' = NoDisposition
    /\ last_freed_access' = 0
    /\ UNCHANGED <<tls_io, saved_tls_options, amqp_connection, amqp_connection_state,
                   preferred_authentication_mode,
                   device_specific_options, registered_devices>>

\* the end of DoWork: amqp_connection_do_work, in which the connection may
\* report a new state
DoWork_Connection(new_state) ==
    /\ pc = "amqp_connection_do_work"
    /\ LET n == on_amqp_connection_state_changed(
                    amqp_connection_state, is_connection_retry_required,
                    amqp_connection_state, new_state)
       IN /\ amqp_connection_state' = n.state
          /\ is_connection_retry_required' = n.retry
    /\ pc' = "idle"
    /\ UNCHANGED <<tls_io, saved_tls_options, amqp_connection,
                   preferred_authentication_mode,
                   device_specific_options, registered_devices, dev, session,
                   waiting_to_send, confirmations, contexts, list_item>>
    /\ last_confirmation' = NoConfirmation
    /\ last_disposition' = NoDisposition
    /\ last_freed_access' = 0

(* ----------------------- subscribe / unsubscribe ---------------------- *)
is_device_registered(c) ==
    is_device_registered_ex(registered_devices, STRING_c_str(dev[c].device_id)) # 0

IoTHubTransport_AMQP_Common_Subscribe(c, subscribe_ok) ==
    /\ pc = "idle"
    /\ IsRegistered(c)
    /\ session' = [session EXCEPT ![c].subscribed =
                      IF is_device_registered(c) /\ subscribe_ok THEN TRUE ELSE @]
    /\ last_confirmation' = NoConfirmation
    /\ last_disposition' = NoDisposition
    /\ last_freed_access' = 0
    /\ UNCHANGED <<tls_io, saved_tls_options, amqp_connection, amqp_connection_state,
                   preferred_authentication_mode,
                   device_specific_options, registered_devices,
                   is_connection_retry_required, dev, waiting_to_send,
                   confirmations, contexts, pc, list_item>>

IoTHubTransport_AMQP_Common_Unsubscribe(c, unsubscribe_ok) ==
    /\ pc = "idle"
    /\ IsRegistered(c)
    /\ session' = [session EXCEPT ![c].subscribed =
                      IF is_device_registered(c) /\ unsubscribe_ok THEN FALSE ELSE @]
    /\ last_confirmation' = NoConfirmation
    /\ last_disposition' = NoDisposition
    /\ last_freed_access' = 0
    /\ UNCHANGED <<tls_io, saved_tls_options, amqp_connection, amqp_connection_state,
                   preferred_authentication_mode,
                   device_specific_options, registered_devices,
                   is_connection_retry_required, dev, waiting_to_send,
                   confirmations, contexts, pc, list_item>>

(* ------------------------- message disposition ------------------------ *)
IOTHUBMESSAGE_DISPOSITION_RESULT == {"ACCEPTED", "ABANDONED", "REJECTED", "UNLISTED"}

\* a conversion that would reject the message on an unlisted disposition
get_device_disposition_result_or_reject(iothubclient_disposition_result) ==
    IF iothubclient_disposition_result = "ACCEPTED" THEN "ACCEPTED"
    ELSE IF iothubclient_disposition_result = "ABANDONED" THEN "RELEASED"
    ELSE "REJECTED"

\* get_device_disposition_result_from
get_device_disposition_result_from(iothubclient_disposition_result) ==
    IF iothubclient_disposition_result = "ACCEPTED" THEN "ACCEPTED"
    ELSE IF iothubclient_disposition_result = "ABANDONED" THEN "RELEASED"
    ELSE IF iothubclient_disposition_result = "REJECTED" THEN "REJECTED"
    ELSE "RELEASED"

\* create_device_message_disposition_info_from
create_device_message_disposition_info_from(message_data, malloc_ok) ==
    IF ~malloc_ok THEN NoInfo
    ELSE [source |-> message_data.link_name, message_id |-> message_data.message_id]

\* The session reached through message_data->transportContext->device_state
\* ->device_handle.  While the device instance lives it is the session of the
\* receiving device.  Once the instance is freed the read is undefined: it
\* finds the destroyed session, or the session of a device instance
\* allocated since.
DeviceHandles(message_data) ==
    IF ~message_data.dangling
    THEN {"receiving_session"}
    ELSE {"destroyed_session"}
         \cup (IF registered_devices # <<>> THEN {"other_session"} ELSE {})

\* IoTHubTransport_AMQP_Common_SendMessageDisposition on the info of message
\* m, which the upper client holds (m = 0: message_data is NULL)
IoTHubTransport_AMQP_Common_SendMessageDisposition(m, disposition, malloc_ok, device_handle, send_ok) ==
    /\ pc = "idle"
    /\ IF m = 0
       THEN /\ last_disposition' =
                   [NoDisposition EXCEPT !.disposition = disposition,
                                         !.result = "IOTHUB_CLIENT_INVALID_ARG"]
            /\ UNCHANGED contexts
       ELSE LET message_data == contexts[m]
                device_disposition_result ==
                    get_device_disposition_result_from(disposition)
                device_message_disposition_info ==
                    create_device_message_disposition_info_from(message_data, malloc_ok)
            IN IF device_message_disposition_info = NoInfo
               THEN /\ last_disposition' =
                           [message_data |-> m, disposition |-> disposition,
                            result |-> "IOTHUB_CLIENT_ERROR", call |-> NoCall]
                    /\ UNCHANGED contexts
               ELSE /\ last_disposition' =
                           [message_data |-> m, disposition |-> disposition,
                            result |-> IF send_ok THEN "IOTHUB_CLIENT_OK"
                                       ELSE "IOTHUB_CLIENT_ERROR",
                            call |-> [session |-> device_handle,
                                      source |-> device_message_disposition_info.source,
                                      message_id |->
                                          device_message_disposition_info.message_id,
                                      result |-> device_disposition_result]]
                    /\ contexts' =
                           [contexts EXCEPT ![m].status =
                                                IF send_ok THEN "destroyed" ELSE @,
                                            ![m].dangling =
                                                IF send_ok THEN FALSE ELSE @]
    /\ last_freed_access' =
           IF /\ m # 0
              /\ contexts[m].dangling
              /\ create_device_message_disposition_info_from(contexts[m], malloc_ok)
                     # NoInfo
           THEN contexts[m].device_state
           ELSE 0
    /\ last_confirmation' = NoConfirmation
    /\ UNCHANGED <<tls_io, saved_tls_options, amqp_connection, amqp_connection_state,
                   preferred_authentication_mode,
                   device_specific_options, registered_devices,
                   is_connection_retry_required, dev, session, waiting_to_send,
                   confirmations, pc, list_item>>

(* ------------------------------- destroy ------------------------------ *)
\* internal_destroy_instance: every device is unregistered, then the
\* connection, the stream and the cached options are destroyed
RECURSIVE DestroyedSessions(_, _)
DestroyedSessions(devices, log) ==
    IF devices = <<>> THEN log
    ELSE LET c == Head(devices)
             ts == device_destroy(c, [TickState(c) EXCEPT !.last = log.last])
         IN DestroyedSessions(Tail(devices),
                [conf |-> [log.conf EXCEPT ![c] = ts.conf], last |-> ts.last])

IoTHubTransport_AMQP_Common_Destroy ==
    /\ pc = "idle"
    /\ LET log == DestroyedSessions(registered_devices,
                      [conf |-> confirmations, last |-> NoConfirmation])
       IN /\ confirmations' = log.conf
          /\ last_confirmation' = log.last
    /\ contexts' = Freed(contexts, Range(registered_devices))
    /\ last_disposition' = NoDisposition
    /\ last_freed_access' = 0
    /\ registered_devices' = <<>>
    /\ dev' = [c \in Clients |-> NoDevice]
    /\ session' = [c \in Clients |-> NoSession]
    /\ amqp_connection' = NULL
    /\ tls_io' = NULL
    /\ saved_tls_options' = NULL
    /\ pc' = "destroyed"
    /\ UNCHANGED <<amqp_connection_state, preferred_authentication_mode,
                   device_specific_options,
                   is_connection_retry_required, waiting_to_send, list_item>>

(* -------------------------------- Next -------------------------------- *)
Credentials == {NULL, "credential"}

\* The Register calls of client c, with the blocks malloc may return.  A
\* step fails, and malloc returns a block, only in a call that gets as far as
\* malloc: its id is not NULL and not found in the registry and its
\* credentials are acceptable.
RegisterCalls(c, blocks) ==
    {call \in [deviceId : DeviceIdArguments(c), deviceKey : Credentials,
               deviceSasToken : Credentials, failure : RegisterFailures,
               block : blocks] :
        call.failure # "none" \/ call.block # 0 =>
            /\ call.deviceId.chars # NULL
            /\ is_device_registered_ex(registered_devices, call.deviceId) = 0
            /\ is_device_credential_acceptable(call.deviceKey, call.deviceSasToken,
                                               preferred_authentication_mode)}

\* What OptionHandler_FeedOptions answers where it is called: for a new
\* stream, when options are cached
FeedAnswers == IF tls_io = NULL /\ saved_tls_options # NULL THEN BOOLEAN ELSE {TRUE}

\* What the stream provider, OptionHandler_FeedOptions, xio_setoption and
\* xio_retrieveoptions answer in a SetOption call: the answer of one that is
\* not called, because one called before it failed, is not varied.
SetOptionAnswers ==
    {answer \in [provider_ok : BOOLEAN, feed_ok : FeedAnswers, setoption_ok : BOOLEAN,
                 retrieve_ok : BOOLEAN] :
        /\ (~answer.provider_ok =>
               answer.feed_ok /\ answer.setoption_ok /\ answer.retrieve_ok)
        /\ (~answer.setoption_ok => answer.retrieve_ok)}

\* One upper client, every answer of the collaborators: the life of one
\* device with its events.
FirstClient == {1}

Next ==
    \/ \E c \in FirstClient :
          \E call \in RegisterCalls(c, {0}) :
             IoTHubTransport_AMQP_Common_Register(
                 c, call.deviceId, call.deviceKey, call.deviceSasToken,
                 call.failure, call.block)
    \/ \E c \in FirstClient : IoTHubTransport_AMQP_Common_Unregister(c)
    \/ \E option \in StreamOptions, answer \in SetOptionAnswers :
          IoTHubTransport_AMQP_Common_SetOption(
              option, answer.provider_ok, answer.feed_ok, answer.setoption_ok,
              answer.retrieve_ok)
    \/ \E c \in FirstClient : Enqueue(c, MaxEvents)
    \/ \E stops \in [Range(registered_devices) -> StopOutcomes],
          now \in StateChangeTimes, retrieve_ok \in BOOLEAN :
          DoWork_Retry(stops, now, retrieve_ok)
    \/ \E provider_ok \in BOOLEAN, feed_ok \in FeedAnswers, create_ok \in BOOLEAN :
          DoWork_Begin(provider_ok, feed_ok, create_ok)
    \/ /\ pc = "devices"
       /\ \E in \in RelevantInputs(CurrentDevice) :
             \E ev \in SessionEvents(DeviceBranch(CurrentDevice,
                                         TickState(CurrentDevice), in).s) :
                DoWork_Device(in, ev)
    \/ \E new_state \in AMQP_CONNECTION_STATE : DoWork_Connection(new_state)
    \/ IoTHubTransport_AMQP_Common_Destroy

Spec == Init /\ [][Next]_vars

\* Register, Unregister and SetOption calls of every upper client; no events
\* and no DoWork.
NextRegistry ==
    \/ \E c \in Clients :
          \E call \in RegisterCalls(c, FreeBlocks(c)) :
             IoTHubTransport_AMQP_Common_Register(
                 c, call.deviceId, call.deviceKey, call.deviceSasToken,
                 call.failure, call.block)
    \/ \E c \in Clients : IoTHubTransport_AMQP_Common_Unregister(c)
    \/ \E option \in StreamOptions, answer \in SetOptionAnswers :
          IoTHubTransport_AMQP_Common_SetOption(
              option, answer.provider_ok, answer.feed_ok, answer.setoption_ok,
              answer.retrieve_ok)
    \/ IoTHubTransport_AMQP_Common_Destroy

SpecRegistry == Init /\ [][NextRegistry]_vars

\* Several devices driven by DoWork.  The clock works, a stop completes or
\* fails at once, and the clients enqueue no events.
WorkingClock(in) == in.current_time # INDEFINITE_TIME /\ in.now # INDEFINITE_TIME
PromptStops == StopOutcomes \ {"stopping"}

NextDevices ==
    \/ \E c \in Clients, deviceKey \in Credentials :
          IoTHubTransport_AMQP_Common_Register(
              c, [ptr |-> CallerBuffer(c), chars |-> "a"], deviceKey, NULL, "none", 0)
    \/ \E c \in Clients : IoTHubTransport_AMQP_Common_Unregister(c)
    \/ \E stops \in [Range(registered_devices) -> PromptStops] :
          DoWork_Retry(stops, 0, TRUE)
    \/ \E provider_ok \in BOOLEAN, feed_ok \in FeedAnswers, create_ok \in BOOLEAN :
          DoWork_Begin(provider_ok, feed_ok, create_ok)
    \/ /\ pc = "devices"
       /\ \E in \in {i \in RelevantInputs(CurrentDevice) :
                        WorkingClock(i) /\ i.stop \in PromptStops} :
             \E ev \in SessionEvents(DeviceBranch(CurrentDevice,
                                         TickState(CurrentDevice), in).s) :
                DoWork_Device(in, ev)
    \/ \E new_state \in AMQP_CONNECTION_STATE : DoWork_Connection(new_state)

SpecDevices == Init /\ [][NextDevices]_vars

\* One upper client that subscribes to messages and answers them with
\* dispositions.  The clock works and no state change times out, a stop
\* completes or fails at once, the device session reports no error, and the
\* client enqueues no events.
SessionErrors == {"ERROR_AUTH", "ERROR_AUTH_TIMEOUT", "ERROR_MSG"}

HeldMessages == {m \in 1..Len(contexts) : contexts[m].status = "held"}

NextDisposition ==
    \/ \E c \in FirstClient, deviceKey \in Credentials :
          IoTHubTransport_AMQP_Common_Register(
              c, [ptr |-> CallerBuffer(c), chars |-> "a"], deviceKey, NULL, "none", 0)
    \/ \E c \in FirstClient : IoTHubTransport_AMQP_Common_Unregister(c)
    \/ \E c \in FirstClient, subscribe_ok \in BOOLEAN :
          IoTHubTransport_AMQP_Common_Subscribe(c, subscribe_ok)
    \/ \E c \in FirstClient, unsubscribe_ok \in BOOLEAN :
          IoTHubTransport_AMQP_Common_Unsubscribe(c, unsubscribe_ok)
    \/ \E stops \in [Range(registered_devices) -> PromptStops] :
          DoWork_Retry(stops, 0, TRUE)
    \/ \E provider_ok \in BOOLEAN, feed_ok \in FeedAnswers, create_ok \in BOOLEAN :
          DoWork_Begin(provider_ok, feed_ok, create_ok)
    \/ /\ pc = "devices"
       /\ \E in \in {i \in RelevantInputs(CurrentDevice) :
                        /\ WorkingClock(i)
                        /\ i.current_time = 0
                        /\ i.stop \in PromptStops} :
             \E ev \in {e \in SessionEvents(DeviceBranch(CurrentDevice,
                                              TickState(CurrentDevice), in).s) :
                            e.to \notin SessionErrors} :
                DoWork_Device(in, ev)
    \/ \E new_state \in AMQP_CONNECTION_STATE : DoWork_Connection(new_state)
    \/ \E m \in {0} \cup HeldMessages,
          disposition \in IOTHUBMESSAGE_DISPOSITION_RESULT,
          malloc_ok \in BOOLEAN, send_ok \in BOOLEAN :
          \E device_handle \in IF m = 0 THEN {NULL} ELSE DeviceHandles(contexts[m]) :
             IoTHubTransport_AMQP_Common_SendMessageDisposition(
                 m, disposition, malloc_ok, device_handle, send_ok)
    \/ IoTHubTransport_AMQP_Common_Destroy

SpecDisposition == Init /\ [][NextDisposition]_vars

\* One upper client whose events are submitted and completed.  The stream
\* and the connection are created and open, the clock works, no state change
\* times out, and the device session starts and reports no error state; it
\* accepts or rejects submissions and completes events with every result.
\* A retry the failures ask for stops the device at once.
NextCompletion ==
    \/ \E c \in FirstClient, deviceKey \in Credentials :
          IoTHubTransport_AMQP_Common_Register(
              c, [ptr |-> CallerBuffer(c), chars |-> "a"], deviceKey, NULL, "none", 0)
    \/ \E c \in FirstClient : IoTHubTransport_AMQP_Common_Unregister(c)
    \/ \E c \in FirstClient : Enqueue(c, MaxCompletions)
    \/ \E stops \in [Range(registered_devices) -> PromptStops] :
          DoWork_Retry(stops, 0, TRUE)
    \/ DoWork_Begin(TRUE, TRUE, TRUE)
    \/ /\ pc = "devices"
       /\ \E in \in {i \in RelevantInputs(CurrentDevice) :
                        /\ WorkingClock(i)
                        /\ i.current_time = 0
                        /\ i.start = "started"
                        /\ i.stop \in PromptStops} :
             \E ev \in {e \in SessionEvents(DeviceBranch(CurrentDevice,
                                              TickState(CurrentDevice), in).s) :
                            e.to \notin SessionErrors} :
                DoWork_Device(in, ev)
    \/ DoWork_Connection("OPENED")

SpecCompletion == Init /\ [][NextCompletion]_vars

\* Devices registered and unregistered while the upper layer sets the
\* device-specific options; a device session may refuse an option.
NextOptions ==
    \/ \E c \in Clients, deviceKey \in Credentials,
          failure \in {"none", "replicate_device_options_to"} :
          IoTHubTransport_AMQP_Common_Register(
              c, [ptr |-> CallerBuffer(c), chars |-> "a"], deviceKey, NULL,
              failure, 0)
    \/ \E c \in Clients : IoTHubTransport_AMQP_Common_Unregister(c)
    \/ \E option \in DeviceSpecificOptions, value \in OptionValues,
          refused_at \in 0..Len(registered_devices) :
          IoTHubTransport_AMQP_Common_SetOption_DeviceSpecific(
              option, value, refused_at)

SpecOptions == Init /\ [][NextOptions]_vars

(* ------------------------------ claims -------------------------------- *)
\* C1: no two devices in the registry have the same device id (the ids
\* compared as strings), whatever buffers the ids were passed in.
NoTwoDevicesShareAnId ==
    \A i, j \in 1..Len(registered_devices) :
        i # j => dev[registered_devices[i]].device_id.chars
                     # dev[registered_devices[j]].device_id.chars


\* C2 (as stated): whenever is_connection_retry_required is set, no device
\* is given its per-device tick; in particular the devices that follow the
\* one that set the flag are not ticked in the same DoWork call.
NoDeviceTickWhileRetryRequired ==
    ~(/\ pc = "devices"
      /\ is_connection_retry_required
      /\ ~SkipsDevice(CurrentDevice))

\* C2 (amended): a DoWork call that finds is_connection_retry_required set
\* never enters the loop over the devices, and the flag is only ever seen set
\* inside the loop when a device of that same loop set it.
RetryBeforeNextDeviceLoop ==
    [][/\ (pc = "idle" /\ is_connection_retry_required => pc' # "devices")
       /\ (pc' = "devices" /\ is_connection_retry_required' => pc = "devices")]_vars

\* C2, its case: the flag was set inside the loop and a later device is
\* about to get its tick
RetrySetInsideDeviceLoop ==
    /\ pc = "devices"
    /\ list_item > 1
    /\ is_connection_retry_required
    /\ ~SkipsDevice(CurrentDevice)

IsIncreasing(seq) == \A i, j \in 1..Len(seq) : i < j => seq[i] < seq[j]
NoDuplicates(seq) == \A i, j \in 1..Len(seq) : i # j => seq[i] # seq[j]

QueuedEventsConfirmedAtDestroy ==
    pc = "destroyed" => \A c \in Clients : waiting_to_send[c] = <<>>


\* C5: after a SendMessageDisposition call that reached
\* device_send_message_disposition has returned, with IOTHUB_CLIENT_OK or
\* with IOTHUB_CLIENT_ERROR, the message and its MESSAGE_CALLBACK_INFO are
\* destroyed.
DispositionDestroysContext ==
    last_disposition.call # NoCall =>
        contexts[last_disposition.message_data].status = "destroyed"

\* C6: the preferred authentication mode, once it is CBS or X509, is never
\* changed by any step.
PreferredModeNeverChanges ==
    [][preferred_authentication_mode # "NOT_SET" =>
          preferred_authentication_mode' = preferred_authentication_mode]_vars

\* C6, its case: the mode is set and every device has been unregistered
ModeSetAndRegistryEmpty ==
    /\ preferred_authentication_mode # "NOT_SET"
    /\ registered_devices = <<>>
    /\ tls_io # NULL
    /\ pc = "idle"

StartedOnlyInOpenedTick ==
    [][\A c \in Clients :
          dev[c].device_state # "STARTED" /\ dev'[c].device_state = "STARTED" =>
              /\ pc = "devices"
              /\ CurrentDevice = c
              /\ amqp_connection_state = "OPENED"
              /\ amqp_connection # NULL
              /\ ~SkipsDevice(c)]_vars

\* C8, its case: a registered device has become STARTED
DeviceStarted ==
    \E c \in Clients :
        /\ IsRegistered(c)
        /\ dev[c].device_state = "STARTED"
        /\ session[c].state = "STARTED"

\* C9: number_of_previous_failures of every registered device lies between
\* 0 and MAX_NUMBER_OF_DEVICE_FAILURES.
PreviousFailuresWithinBudget ==
    \A c \in Clients :
        IsRegistered(c) =>
            /\ dev[c].number_of_previous_failures >= 0
            /\ dev[c].number_of_previous_failures <= MAX_NUMBER_OF_DEVICE_FAILURES

\* C9, its case: failed drains and ticks in an error state together have
\* used up the budget
BudgetUsedUpWithFailedDrain ==
    \E c \in Clients :
        /\ IsRegistered(c)
        /\ dev[c].number_of_previous_failures = MAX_NUMBER_OF_DEVICE_FAILURES
        /\ dev[c].device_state = "STARTED"
        /\ last_confirmation.by = "drain"

\* C10: a SendMessageDisposition call with ACCEPTED that makes its
\* device_send_message_disposition call makes it on the session of the device
\* that received the message, with ACCEPTED and with the link name and
\* delivery id the message came with.
DispositionReachesReceivingSession ==
    last_disposition.disposition = "ACCEPTED" /\ last_disposition.call # NoCall =>
        LET message_data == contexts[last_disposition.message_data]
        IN /\ last_disposition.call.session = "receiving_session"
           /\ last_disposition.call.result = "ACCEPTED"
           /\ last_disposition.call.source = message_data.link_name
           /\ last_disposition.call.message_id = message_data.message_id


\* C11: a call of Unregister with the handle of a device that was already
\* unregistered (its instance freed) changes neither the registry nor any
\* device instance, device session, confirmation or message context.
UnregisterTwiceChangesNothing ==
    [][last_freed_access' # 0 /\ last_disposition' = NoDisposition =>
          UNCHANGED <<registered_devices, dev, session, confirmations,
                      contexts>>]_vars


\* the clients holding the handle of a device instance that exists: Register
\* returned it and no Unregister has freed it
LiveHandles(devices) ==
    {c \in Clients : devices[c].device_id.ptr.kind = "owned"}

\* C12: in every Register or Unregister step the size of the registry grows
\* by one exactly when Register returns a handle, shrinks by one exactly when
\* Unregister removes a device, and is unchanged otherwise; so the size is
\* the number of handles returned minus the number of devices removed.
RegistrySizeCountsRegistrations ==
    [][pc' # "destroyed" =>
          LET returned == LiveHandles(dev') \ LiveHandles(dev)
              removed == LiveHandles(dev) \ LiveHandles(dev')
          IN /\ Cardinality(returned) + Cardinality(removed) <= 1
             /\ Len(registered_devices') =
                    Len(registered_devices) + Cardinality(returned)
                        - Cardinality(removed)
             /\ Len(registered_devices') = Cardinality(LiveHandles(dev'))]_vars

\* C12, its case: two devices were registered and one of them unregistered
OneOfTwoUnregistered ==
    /\ Len(registered_devices) = 1
    /\ \E c \in Clients : IsFreed(c)
    /\ pc = "idle"


\* the ordered rule table of credential acceptance
CredentialRule(key_present, sas_present, preference) ==
    IF key_present /\ sas_present THEN "reject"
    ELSE IF preference = "NOT_SET" THEN "accept"
    ELSE IF preference = "X509" /\ (key_present \/ sas_present) THEN "reject"
    ELSE IF preference = "CBS" /\ ~key_present /\ ~sas_present THEN "reject"
    ELSE "accept"

\* C13: for every combination of key, SAS token and transport preference
\* the credential check accepts exactly what the ordered rule table accepts,
\* and the per-device mode is CBS when a key or a SAS token is present and
\* X509 otherwise; so every registered device has the mode the transport
\* prefers.
CredentialsFollowRuleTable ==
    /\ \A deviceKey \in Credentials, deviceSasToken \in Credentials,
          preferred \in AMQP_TRANSPORT_AUTHENTICATION_MODE :
          /\ is_device_credential_acceptable(deviceKey, deviceSasToken, preferred)
                <=> CredentialRule(deviceKey # NULL, deviceSasToken # NULL,
                                   preferred) = "accept"
          /\ DeviceAuthMode(deviceKey, deviceSasToken) =
                IF deviceKey # NULL \/ deviceSasToken # NULL THEN "CBS" ELSE "X509"
    /\ \A c \in Clients :
          IsRegistered(c) =>
              session[c].authentication_mode = preferred_authentication_mode

\* C13, its case: a second device was accepted by a transport that already
\* preferred a mode
SecondDeviceAccepted ==
    /\ Len(registered_devices) = 2
    /\ preferred_authentication_mode \in {"CBS", "X509"}
    /\ \A c \in Clients :
          session[c].authentication_mode = preferred_authentication_mode


\* C14: a step that adds a device to the registry of a transport whose
\* preferred mode is NOT_SET sets the mode to that device's mode; no other
\* Register step writes the mode, so while the mode is NOT_SET the registry
\* is empty, and a step that sets the mode without adding a device is a
\* SetOption of an x509 option.
FirstRegistrationSetsMode ==
    [][preferred_authentication_mode = "NOT_SET" =>
          /\ (Len(registered_devices') > Len(registered_devices) =>
                /\ registered_devices = <<>>
                /\ preferred_authentication_mode' \in {"CBS", "X509"}
                /\ preferred_authentication_mode' =
                       session'[registered_devices'[1]].authentication_mode)
          /\ ((Len(registered_devices') <= Len(registered_devices)
                  /\ preferred_authentication_mode' # "NOT_SET") =>
                /\ preferred_authentication_mode' = "X509"
                /\ UNCHANGED <<registered_devices, dev, session>>)
          /\ (preferred_authentication_mode' = "NOT_SET" =>
                registered_devices' = <<>>)]_vars

\* C14, its case: the first device registered had a key or a SAS token and
\* the transport now prefers CBS
FirstDeviceMadeItCBS ==
    /\ Len(registered_devices) = 1
    /\ preferred_authentication_mode = "CBS"
    /\ session[registered_devices[1]].authentication_mode = "CBS"


\* C15: in every state, a Register call that returns NULL, whatever its
\* arguments and whichever of its steps fails, leaves the registry, the
\* preferred mode, every device instance and every device session as they
\* were (the connection and the stream are not in Register's reach).
FailedRegisterChangesNothing ==
    \A c \in Clients, deviceKey \in Credentials, deviceSasToken \in Credentials,
       failure \in RegisterFailures :
        \A deviceId \in DeviceIdArguments(c), block \in FreeBlocks(c) :
            LET after == Register(c, deviceId, deviceKey, deviceSasToken,
                                  failure, block)
            IN ~IsRegistered(c) /\ after.result = 0 =>
                   /\ after.registered_devices = registered_devices
                   /\ after.preferred_authentication_mode =
                          preferred_authentication_mode
                   /\ after.dev = dev
                   /\ after.session = session

\* C15, its case: a device is registered, the block of an unregistered one
\* is free, and a registration that got as far as creating its device
\* session fails
RegistrationFailsBesideDevice ==
    /\ Len(registered_devices) = 1
    /\ \E c \in Clients, deviceKey \in Credentials :
          /\ IsFreed(c)
          /\ is_device_credential_acceptable(deviceKey, NULL,
                                             preferred_authentication_mode)
          /\ Register(c, [ptr |-> CallerBuffer(c), chars |-> "b"],
                      deviceKey, NULL, "singlylinkedlist_add", 0).result = 0


X509Options == {"x509certificate", "x509privatekey"}

\* C16: SetOption with an x509 option turns a preferred mode of NOT_SET into
\* X509; and while the mode is X509 every Register call whose config carries
\* a key or a SAS token returns NULL and leaves the registry unchanged, while
\* a config with neither (and an id not found in the registry) is registered
\* unless one of its steps fails.
X509ModeLocksOutKeyAndSas ==
    /\ \A option \in X509Options, provider_ok \in BOOLEAN, feed_ok \in BOOLEAN,
          setoption_ok \in BOOLEAN, retrieve_ok \in BOOLEAN :
          preferred_authentication_mode = "NOT_SET" =>
              SetOption(option, provider_ok, feed_ok, setoption_ok,
                        retrieve_ok).preferred_authentication_mode = "X509"
    /\ preferred_authentication_mode = "X509" =>
          \A c \in Clients, deviceKey \in Credentials,
             deviceSasToken \in Credentials, failure \in RegisterFailures :
              \A deviceId \in DeviceIdArguments(c), block \in FreeBlocks(c) :
                  LET after == Register(c, deviceId, deviceKey, deviceSasToken,
                                        failure, block)
                  IN ~IsRegistered(c) =>
                        /\ (deviceKey # NULL \/ deviceSasToken # NULL =>
                              /\ after.result = 0
                              /\ after.registered_devices = registered_devices)
                        /\ (/\ deviceKey = NULL
                            /\ deviceSasToken = NULL
                            /\ failure = "none"
                            /\ deviceId.chars # NULL
                            /\ is_device_registered_ex(registered_devices,
                                                       deviceId) = 0
                            => /\ after.result = c
                               /\ after.registered_devices =
                                      Append(registered_devices, c))

\* C16, its case: the mode is X509 and no device was ever registered, so it
\* was SetOption that set it
X509SetByOption ==
    /\ preferred_authentication_mode = "X509"
    /\ registered_devices = <<>>
    /\ \A c \in Clients : dev[c] = NoDevice
    /\ pc = "idle"


\* C17: while the preferred mode is CBS, SetOption with an x509 option
\* returns IOTHUB_CLIENT_INVALID_ARG whatever the collaborators would answer,
\* leaves the mode CBS, asks the provider for no stream, passes nothing to
\* the stream and leaves the stream and the cached options as they are.
X509OptionRefusedUnderCBS ==
    preferred_authentication_mode = "CBS" =>
        \A option \in X509Options, provider_ok \in BOOLEAN, feed_ok \in BOOLEAN,
           setoption_ok \in BOOLEAN, retrieve_ok \in BOOLEAN :
            LET after == SetOption(option, provider_ok, feed_ok, setoption_ok,
                                   retrieve_ok)
            IN /\ after.result = "IOTHUB_CLIENT_INVALID_ARG"
               /\ after.preferred_authentication_mode = "CBS"
               /\ ~after.created
               /\ ~after.forwarded
               /\ after.tls_io = tls_io
               /\ after.saved_tls_options = saved_tls_options

\* C17, its case: the mode is CBS, a retry has destroyed the stream and
\* options are cached
CBSWithoutStreamWithCachedOptions ==
    /\ preferred_authentication_mode = "CBS"
    /\ tls_io = NULL
    /\ saved_tls_options # NULL
    /\ pc = "idle"


\* the table of send completion: confirmation code and counter action
CompletionRule(result) ==
    CASE result = "OK" -> [code |-> "CONFIRMATION_OK", counter |-> "reset"]
      [] result = "ERROR_TIMEOUT" ->
            [code |-> "CONFIRMATION_MESSAGE_TIMEOUT", counter |-> "increment"]
      [] result = "DEVICE_DESTROYED" ->
            [code |-> "CONFIRMATION_BECAUSE_DESTROY", counter |-> "reset"]
      [] OTHER -> [code |-> "CONFIRMATION_ERROR", counter |-> "increment"]

\* C18: every result, listed or not, is mapped to the confirmation code of
\* the table; and in every step that completes events of a device the last
\* callback carries the code of the table for its result, and the device's
\* number_of_send_event_complete_failures is 0 after a result that resets
\* it and has grown by one for every completion of the step otherwise.
CompletionFollowsTable ==
    [][/\ \A result \in D2C_EVENT_SEND_RESULT \cup {"UNLISTED"} :
             get_iothub_client_confirmation_result_from(result) =
                 CompletionRule(result).code
       /\ \A c \in Clients :
             last_confirmation'.client = c =>
                 LET rule == CompletionRule(last_confirmation'.result)
                     completed == Len(confirmations'[c]) - Len(confirmations[c])
                 IN /\ last_confirmation'.code = rule.code
                    /\ completed >= 1
                    /\ (rule.counter = "reset" =>
                          dev'[c].number_of_send_event_complete_failures = 0)
                    /\ (rule.counter = "increment" =>
                          dev'[c].number_of_send_event_complete_failures =
                              dev[c].number_of_send_event_complete_failures
                                  + completed)]_vars

\* C18, its case: three events were completed, the last two with failures,
\* the third by the device session with ERROR_FAIL_SENDING
ThreeCompletedTwoFailures ==
    \E c \in Clients :
        /\ confirmations[c] = <<1, 2, 3>>
        /\ dev[c].number_of_send_event_complete_failures = 2
        /\ last_confirmation.result = "ERROR_FAIL_SENDING"
        /\ last_confirmation.by = "session"
        /\ last_confirmation.code = "CONFIRMATION_ERROR"


\* C19: the events of a device are numbered in enqueue order; at every
\* moment each event already handed to device_send_event_async (in flight
\* or confirmed) was enqueued before each event still waiting, and the
\* events in flight lie in the session in enqueue order.  So no event is
\* ever submitted while an earlier one is still on the queue.
SubmittedInEnqueueOrder ==
    \A c \in Clients :
        /\ IsIncreasing(waiting_to_send[c])
        /\ IsIncreasing(session[c].in_flight)
        /\ \A m \in Range(waiting_to_send[c]) :
              \A k \in Range(session[c].in_flight) \cup Range(confirmations[c]) :
                  k < m

\* C19, its case: of three events one was confirmed, one is in flight and
\* one was enqueued later and still waits
OneConfirmedOneInFlightOneWaiting ==
    \E c \in Clients :
        /\ confirmations[c] = <<1>>
        /\ session[c].in_flight = <<2>>
        /\ waiting_to_send[c] = <<3>>


\* C20: (1) the step in which the connection reports ERROR sets
\* is_connection_retry_required, and the flag stays set as long as ERROR is
\* recorded; (2) while the flag is set a DoWork call neither enters the loop
\* over the devices nor establishes a connection, and the step that clears
\* the flag is the DoWork call that leaves no connection, no stream and the
\* state CLOSED; (3) a DoWork call that finds no retry pending, no
\* connection and a registered device establishes stream and connection
\* when the provider and amqp_connection_create succeed, and a connection
\* only ever appears that way.
ErrorLeadsToRetryAndReconnect ==
    [][/\ (amqp_connection_state' = "ERROR" => is_connection_retry_required')
       /\ (amqp_connection_state # "ERROR" /\ amqp_connection_state' = "ERROR" =>
              pc = "amqp_connection_do_work")
       /\ (pc = "idle" /\ is_connection_retry_required =>
              /\ pc' \in {"idle", "destroyed"}
              /\ (amqp_connection' # amqp_connection => amqp_connection' = NULL))
       /\ (is_connection_retry_required /\ ~is_connection_retry_required' =>
              /\ pc = "idle" /\ pc' = "idle"
              /\ amqp_connection' = NULL
              /\ tls_io' = NULL
              /\ amqp_connection_state' = "CLOSED")
       /\ (/\ pc' = "idle"
           /\ ~is_connection_retry_required'
           /\ amqp_connection' = NULL
           /\ registered_devices' # <<>>
           => LET e == establish_amqp_connection(TRUE, TRUE, TRUE)'
              IN /\ e.result = RESULT_OK
                 /\ e.tls_io # NULL
                 /\ e.amqp_connection # NULL)
       /\ (amqp_connection = NULL /\ amqp_connection' # NULL =>
              /\ pc = "idle"
              /\ ~is_connection_retry_required
              /\ registered_devices # <<>>
              /\ tls_io' # NULL)]_vars

\* C20, its case: the connection has reported ERROR to a transport with a
\* registered device, and the retry is pending
ConnectionErrorAwaitsRetry ==
    /\ amqp_connection_state = "ERROR"
    /\ is_connection_retry_required
    /\ amqp_connection # NULL
    /\ registered_devices # <<>>
    /\ pc = "idle"



\* the transport's current value of a device-specific option
CurrentValue(options, option) ==
    CASE option = "sas_token_lifetime" -> options.option_sas_token_lifetime_secs
      [] option = "sas_token_refresh_time" -> options.option_sas_token_refresh_time_secs
      [] option = "cbs_request_timeout" -> options.option_cbs_request_timeout_secs
      [] option = "event_send_timeout_secs" -> options.option_send_event_timeout_secs

\* the device-specific options of the CBS authentication
CbsOptions == {"sas_token_lifetime", "sas_token_refresh_time", "cbs_request_timeout"}

\* a SetOption call with a device-specific option that returns
\* IOTHUB_CLIENT_OK has saved the value in the transport and set it on the
\* session of every registered device, and has set nothing else
OkStoresAndAppliesToAll ==
    \A option \in DeviceSpecificOptions, value \in OptionValues,
       refused_at \in 0..Len(registered_devices) :
        LET after == SetDeviceSpecificOption(option, value, refused_at)
            name == get_device_option_name_from(option)
        IN /\ CurrentValue(after.device_specific_options, option) = value
           /\ \A other \in DeviceSpecificOptions \ {option} :
                 CurrentValue(after.device_specific_options, other) =
                     CurrentValue(device_specific_options, other)
           /\ (after.result = "IOTHUB_CLIENT_OK" <=> refused_at = 0)
           /\ (after.result = "IOTHUB_CLIENT_OK" =>
                 \A c \in Clients :
                     IF IsRegistered(c)
                     THEN after.session[c] =
                              [session[c] EXCEPT !.options[name] = value]
                     ELSE after.session[c] = session[c])

Ticked(c) == pc = "devices" /\ CurrentDevice = c /\ ~SkipsDevice(c)

\* C22: (1) a per-device tick that finds the device in an error state adds
\* one to its number_of_previous_failures, and when that makes 5 the same
\* step sets is_connection_retry_required; (2) between such ticks the counter
\* of a registered device changes only by a tick in STARTED (to 0, or by one
\* more) or by a retry (to 0), so the fifth tick in an error state with
\* neither in between finds 4 and leaves 5; (3) a DoWork call that finds the
\* flag set enters no loop over the devices, and the step that clears the
\* flag leaves no connection and no byte-stream.
FifthErrorTickSetsRetry ==
    [][/\ \A c \in Clients :
             /\ (Ticked(c) /\ dev[c].device_state \in SessionErrors =>
                    /\ dev'[c].number_of_previous_failures =
                           dev[c].number_of_previous_failures + 1
                    /\ (dev'[c].number_of_previous_failures
                            = MAX_NUMBER_OF_DEVICE_FAILURES
                        => is_connection_retry_required'))
             /\ (/\ IsRegistered(c) /\ IsRegistered(c)'
                 /\ dev'[c].number_of_previous_failures
                        # dev[c].number_of_previous_failures
                 /\ ~(Ticked(c) /\ dev[c].device_state \in SessionErrors)
                 => \/ /\ Ticked(c)
                       /\ dev[c].device_state = "STARTED"
                       /\ dev'[c].number_of_previous_failures
                              \in {0, dev[c].number_of_previous_failures + 1}
                    \/ /\ pc = "idle"
                       /\ is_connection_retry_required
                       /\ ~is_connection_retry_required'
                       /\ dev'[c].number_of_previous_failures = 0)
       /\ (pc = "idle" /\ is_connection_retry_required => pc' # "devices")
       /\ (is_connection_retry_required /\ ~is_connection_retry_required' =>
              /\ pc = "idle"
              /\ pc' # "devices"
              /\ amqp_connection' = NULL
              /\ tls_io' = NULL)]_vars

\* C22, its case: a device that never had an event to send was found in an
\* error state five times, and the tick that counted the fifth has set the
\* flag
FiveErrorTicksAndRetryRequired ==
    \E c \in Clients :
        /\ IsRegistered(c)
        /\ dev[c].device_state \in SessionErrors
        /\ dev[c].number_of_previous_failures = MAX_NUMBER_OF_DEVICE_FAILURES
        /\ EventsOf(c) = 0
        /\ is_connection_retry_required
        /\ amqp_connection # NULL
        /\ tls_io # NULL



\* C23: the loop over the devices only runs with the connection OPENED, and
\* the turn of a device whose number_of_send_event_complete_failures is 5 or
\* more sets is_connection_retry_required and is no per-device tick: no
\* start, stop or drain and no device_do_work, so the device instance, its
\* session, its queue, the confirmations and the message contexts are as
\* they were, whatever the device's state and number_of_previous_failures.
SendFailuresSkipTickAndSetRetry ==
    [][pc = "devices" =>
          /\ amqp_connection_state = "OPENED"
          /\ (dev[CurrentDevice].number_of_send_event_complete_failures
                  >= MAX_NUMBER_OF_DEVICE_FAILURES
              => /\ is_connection_retry_required'
                 /\ last_confirmation' = NoConfirmation
                 /\ UNCHANGED <<dev, session, waiting_to_send, confirmations,
                                contexts>>)]_vars

\* C23, its case: the loop has just passed over a device whose events
\* completed with failures five times, and whose own failure budget is not
\* used up
SkippedForSendFailures ==
    \E c \in Clients :
        /\ IsRegistered(c)
        /\ dev[c].number_of_send_event_complete_failures
               >= MAX_NUMBER_OF_DEVICE_FAILURES
        /\ dev[c].number_of_previous_failures < MAX_NUMBER_OF_DEVICE_FAILURES
        /\ is_connection_retry_required
        /\ pc = "amqp_connection_do_work"



\* C24: whenever a DoWork call would find is_connection_retry_required set,
\* its prepare_for_connection_retry, whatever device_stop, get_time and
\* xio_retrieveoptions answer, calls device_stop once on every registered
\* device whose device_state is not STOPPED and on no other, leaves both
\* failure counters of every registered device 0, destroys the connection
\* and then the byte-stream and leaves the state CLOSED; the step that
\* clears the flag is that call: it starts and ends outside the loop over the
\* devices, does not reach amqp_connection_do_work, leaves no connection and
\* no stream, and leaves the registry, the queues, the confirmations and the
\* message contexts alone.  While the flag is set no step creates a
\* connection or enters the loop.
RetryTickDoesOnlyTheRetry ==
    /\ [](pc = "idle" /\ is_connection_retry_required =>
             \A stops \in [Range(registered_devices) -> StopOutcomes],
                now \in StateChangeTimes, retrieve_ok \in BOOLEAN :
                 LET after == prepare_for_connection_retry(stops, now, retrieve_ok)
                 IN /\ \A c \in Range(registered_devices) :
                          LET t == after.devices[c]
                          IN /\ t.calls = IF dev[c].device_state # "STOPPED"
                                          THEN <<"device_stop">> ELSE <<>>
                             /\ t.d.number_of_previous_failures = 0
                             /\ t.d.number_of_send_event_complete_failures = 0
                    /\ after.calls = <<"amqp_connection_destroy", "xio_destroy">>
                    /\ after.amqp_connection = NULL
                    /\ after.tls_io = NULL
                    /\ after.amqp_connection_state = "CLOSED")
    /\ [][/\ (pc = "idle" /\ is_connection_retry_required =>
                /\ pc' \notin {"devices", "amqp_connection_do_work"}
                /\ (amqp_connection' # amqp_connection => amqp_connection' = NULL))
          /\ (is_connection_retry_required /\ ~is_connection_retry_required' =>
                /\ pc = "idle" /\ pc' = "idle"
                /\ amqp_connection # NULL /\ amqp_connection' = NULL
                /\ tls_io # NULL /\ tls_io' = NULL
                /\ amqp_connection_state' = "CLOSED"
                /\ \A c \in Range(registered_devices) :
                      /\ dev'[c].number_of_previous_failures = 0
                      /\ dev'[c].number_of_send_event_complete_failures = 0
                      /\ (dev[c].device_state = "STOPPED" =>
                             /\ dev'[c].device_state = "STOPPED"
                             /\ session'[c] = session[c])
                /\ UNCHANGED <<registered_devices, preferred_authentication_mode,
                               waiting_to_send, confirmations, contexts>>
                /\ last_confirmation' = NoConfirmation)]_vars

\* C24, its case: a retry has run over two registered devices, one of which
\* it could not stop
RetryDoneOverTwoDevices ==
    /\ Len(registered_devices) = 2
    /\ ~is_connection_retry_required
    /\ amqp_connection = NULL
    /\ tls_io = NULL
    /\ saved_tls_options # NULL
    /\ amqp_connection_state = "CLOSED"
    /\ pc = "idle"
    /\ \E c \in Clients : dev[c].device_state = "STOPPED"
    /\ \E c \in Clients : dev[c].device_state \in SessionErrors
    /\ \A c \in Clients :
          /\ dev[c].number_of_previous_failures = 0
          /\ dev[c].number_of_send_event_complete_failures = 0



\* the times get_time is made to return around the state-change timeout
TimesAroundTimeout ==
    {0, DEFAULT_DEVICE_STATE_CHANGE_TIMEOUT_SECS - 1,
     DEFAULT_DEVICE_STATE_CHANGE_TIMEOUT_SECS,
     DEFAULT_DEVICE_STATE_CHANGE_TIMEOUT_SECS + 1}

UnreadableClockForcesError ==
    pc = "devices" /\ ~SkipsDevice(CurrentDevice)
        /\ dev[CurrentDevice].device_state \in {"STARTING", "STOPPING"} =>
        LET c == CurrentDevice
        IN \A current_time \in CurrentTimes, in \in RelevantInputs(c),
              ev \in SessionEvents(session[c]) :
              LET input == [in EXCEPT !.current_time = current_time]
                  branched == DeviceBranch(c, TickState(c), input)
                  ticked == IoTHubTransport_AMQP_Common_Device_DoWork(
                                c, TickState(c), input, ev)
              IN current_time = INDEFINITE_TIME
                     \/ dev[c].time_of_last_state_change = INDEFINITE_TIME =>
                     /\ branched.d = [dev[c] EXCEPT !.device_state = "ERROR_AUTH"]
                     /\ branched.s = session[c]
                     /\ ticked.result = FAILURE

\* C26, its case: a device whose state change was recorded while the clock
\* failed, and whose session is still starting, was forced to ERROR_AUTH
ForcedToErrorWithoutRecordedTime ==
    \E c \in Clients :
        /\ IsRegistered(c)
        /\ session[c].state = "STARTING"
        /\ dev[c].device_state = "ERROR_AUTH"
        /\ dev[c].time_of_last_state_change = INDEFINITE_TIME



\* the notification of the state the session is already in, and no event
SameStateEvent(s) == [kind |-> "state", to |-> s.state, result |-> NULL, source |-> NULL]
NoEvent(s) == [kind |-> "none", to |-> s.state, result |-> NULL, source |-> NULL]

\* C27: for every registered device and every notification (previous_state,
\* new_state) with every value of the clock, on_device_state_changed_callback
\* writes device_state = new_state and time_of_last_state_change = get_time()
\* and nothing else when new_state differs from previous_state, and leaves
\* the whole device instance (both failure counters included) as it is when
\* they are equal; and a tick in which the session notifies the state it is
\* already in ends as the same tick without any notification.
StateSavedOnlyWhenChanged ==
    /\ \A c \in Clients : IsRegistered(c) =>
          \A previous_state \in DEVICE_STATE, new_state \in DEVICE_STATE,
             now \in CurrentTimes :
             LET saved == on_device_state_changed_callback(
                              dev[c], previous_state, new_state, now)
             IN IF new_state # previous_state
                THEN saved = [dev[c] EXCEPT !.device_state = new_state,
                                            !.time_of_last_state_change = now]
                ELSE saved = dev[c]
    /\ pc = "devices" /\ ~SkipsDevice(CurrentDevice) =>
          LET c == CurrentDevice
          IN \A in \in RelevantInputs(c) :
                LET branched == DeviceBranch(c, TickState(c), in)
                IN IoTHubTransport_AMQP_Common_Device_DoWork(
                       c, TickState(c), in, SameStateEvent(branched.s))
                   = IoTHubTransport_AMQP_Common_Device_DoWork(
                       c, TickState(c), in, NoEvent(branched.s))

\* C27, its case: a device that has failed before was started again, the
\* change to STARTING was saved with the time of a failed clock, and the
\* count of its failures is still there
RestartedWithFailuresCounted ==
    \E c \in Clients :
        /\ IsRegistered(c)
        /\ dev[c].device_state = "STARTING"
        /\ dev[c].time_of_last_state_change = INDEFINITE_TIME
        /\ dev[c].number_of_previous_failures > 0



\* C28: whenever the device about to get its tick is in ERROR_AUTH,
\* ERROR_AUTH_TIMEOUT or ERROR_MSG, then for every answer of the session the
\* tick leaves number_of_previous_failures one higher, at most at 5; if
\* the new count is below 5 the branch calls device_stop exactly once and
\* the tick returns RESULT_OK exactly when that call did; if the new count
\* is 5 nothing is called on the session before device_do_work, the session
\* and the rest of the device instance are as before, and the tick fails.
ErrorTickCountsAndStops ==
    pc = "devices" /\ ~SkipsDevice(CurrentDevice)
        /\ dev[CurrentDevice].device_state \in SessionErrors =>
        LET c == CurrentDevice
            counted == dev[c].number_of_previous_failures + 1
        IN \A in \in RelevantInputs(c) :
              LET branched == DeviceBranch(c, TickState(c), in)
              IN \A ev \in SessionEvents(branched.s) :
                    LET ticked == IoTHubTransport_AMQP_Common_Device_DoWork(
                                      c, TickState(c), in, ev)
                        stop == device_stop(TickState(c), in.stop, in.now)
                    IN /\ ticked.d.number_of_previous_failures = counted
                       /\ counted <= 5
                       /\ IF counted < 5
                          THEN /\ ticked.calls = <<"device_stop", "device_do_work">>
                               /\ ticked.result = stop.result
                               /\ branched.s = stop.s
                          ELSE /\ ticked.calls = <<"device_do_work">>
                               /\ ticked.result = FAILURE
                               /\ branched.s = session[c]
                               /\ branched.d =
                                      [dev[c] EXCEPT !.number_of_previous_failures = 5]

\* C28, its case: a device was stopped by the tick that counted its fourth
\* failure
StoppedAtFourthFailure ==
    \E c \in Clients :
        /\ IsRegistered(c)
        /\ dev[c].device_state = "STOPPED"
        /\ session[c].state = "STOPPED"
        /\ dev[c].number_of_previous_failures = 4



\* C29: whenever the device about to get its tick is STARTED, then for every
\* number of events device_send_event_async accepts: if it accepts all that
\* wait (none waiting included), the tick sets number_of_previous_failures
\* to 0, leaves the waiting-to-send list empty with the events handed to the
\* session in order, and succeeds; if it rejects one, the tick leaves the
\* counter one higher and fails.  And a step that takes the counter of a
\* device that stays registered from above 0 to 0 is a successful tick of
\* that device in STARTED, or the retry of DoWork.
StartedTickDrainsAndResets ==
    /\ [](pc = "devices" /\ ~SkipsDevice(CurrentDevice)
              /\ dev[CurrentDevice].device_state = "STARTED" =>
          LET c == CurrentDevice
          IN \A in \in RelevantInputs(c) :
                LET branched == DeviceBranch(c, TickState(c), in)
                IN \A ev \in SessionEvents(branched.s) :
                      LET ticked == IoTHubTransport_AMQP_Common_Device_DoWork(
                                        c, TickState(c), in, ev)
                      IN IF in.accepted = Len(waiting_to_send[c])
                         THEN /\ ticked.d.number_of_previous_failures = 0
                              /\ branched.w = <<>>
                              /\ ticked.w = <<>>
                              /\ branched.s.in_flight =
                                     session[c].in_flight \o waiting_to_send[c]
                              /\ ticked.result = RESULT_OK
                         ELSE /\ ticked.d.number_of_previous_failures =
                                     dev[c].number_of_previous_failures + 1
                              /\ ticked.result = FAILURE)
    /\ [][\A c \in Clients :
             /\ IsRegistered(c) /\ IsRegistered(c)'
             /\ dev[c].number_of_previous_failures > 0
             /\ dev'[c].number_of_previous_failures = 0
             => \/ /\ Ticked(c)
                   /\ dev[c].device_state = "STARTED"
                   /\ waiting_to_send'[c] = <<>>
                \/ /\ pc = "idle"
                   /\ is_connection_retry_required
                   /\ ~is_connection_retry_required']_vars

\* C29, its case: a started device has just had a submission rejected in
\* its tick and its count of failures is up
SubmissionFailedAndCounted ==
    \E c \in Clients :
        /\ IsRegistered(c)
        /\ last_confirmation.client = c
        /\ last_confirmation.by = "drain"
        /\ dev[c].number_of_previous_failures >= 1



\* C30: whenever the device about to get its tick is STARTED and
\* device_send_event_async rejects the event after the first accepted ones,
\* the drain completes exactly that event, with ERROR_FAIL_SENDING: the
\* callback of the event is called with IOTHUB_CLIENT_CONFIRMATION_ERROR,
\* number_of_send_event_complete_failures is one higher, and the event is
\* gone from the list; the session has received the accepted events and no
\* other, and the events behind the rejected one are still on the list, in
\* their order, when the tick ends.
RejectedSubmissionEndsTheDrain ==
    pc = "devices" /\ ~SkipsDevice(CurrentDevice)
        /\ dev[CurrentDevice].device_state = "STARTED" =>
        LET c == CurrentDevice
            w == waiting_to_send[c]
        IN \A in \in RelevantInputs(c) : in.accepted < Len(w) =>
              LET branched == DeviceBranch(c, TickState(c), in)
                  rejected == w[in.accepted + 1]
                  behind == SubSeq(w, in.accepted + 2, Len(w))
              IN /\ branched.last =
                        [client |-> c, message |-> rejected,
                         result |-> "ERROR_FAIL_SENDING", by |-> "drain",
                         code |-> "CONFIRMATION_ERROR"]
                 /\ branched.conf = Append(confirmations[c], rejected)
                 /\ branched.d = [dev[c] EXCEPT
                        !.number_of_send_event_complete_failures = @ + 1,
                        !.number_of_previous_failures = @ + 1]
                 /\ branched.s.in_flight =
                        session[c].in_flight \o SubSeq(w, 1, in.accepted)
                 /\ branched.w = behind
                 /\ \A ev \in SessionEvents(branched.s) :
                       LET ticked == IoTHubTransport_AMQP_Common_Device_DoWork(
                                         c, TickState(c), in, ev)
                       IN /\ ticked.w = behind
                          /\ ticked.result = FAILURE
                          /\ \A i \in 1..Len(behind) :
                                /\ behind[i] \notin Range(ticked.conf)
                                /\ behind[i] \notin Range(ticked.s.in_flight)

\* C30, its case: a submission was rejected in the tick just made, after an
\* accepted one, and two events behind it are still waiting
RejectedWithTwoEventsBehind ==
    \E c \in Clients :
        /\ IsRegistered(c)
        /\ last_confirmation.client = c
        /\ last_confirmation.by = "drain"
        /\ last_confirmation.message >= 2
        /\ Len(waiting_to_send[c]) >= 2
        /\ waiting_to_send[c][1] = last_confirmation.message + 1



\* C31: whenever SendMessageDisposition has just called
\* device_send_message_disposition, the result it passed is ACCEPTED for
\* IOTHUBMESSAGE_ACCEPTED, RELEASED for IOTHUBMESSAGE_ABANDONED, REJECTED
\* for IOTHUBMESSAGE_REJECTED and RELEASED for any other value of the
\* disposition the upper client gave.
DispositionForwardedAsMapped ==
    last_disposition.call # NoCall =>
        /\ last_disposition.disposition \in IOTHUBMESSAGE_DISPOSITION_RESULT
        /\ last_disposition.call.result =
               CASE last_disposition.disposition = "ACCEPTED" -> "ACCEPTED"
                 [] last_disposition.disposition = "ABANDONED" -> "RELEASED"
                 [] last_disposition.disposition = "REJECTED" -> "REJECTED"
                 [] OTHER -> "RELEASED"

\* C31, its case: a disposition outside the three listed values was
\* forwarded to the device session as RELEASED
UnlistedDispositionReleased ==
    /\ last_disposition.disposition = "UNLISTED"
    /\ last_disposition.call # NoCall
    /\ last_disposition.call.result = "RELEASED"



\* C32: whenever DoWork would find no retry pending, then for every answer
\* of the stream provider, of OptionHandler_FeedOptions and of
\* amqp_connection_create: it calls amqp_connection_create only with a
\* device registered, no connection and the preferred mode CBS or X509, and
\* then with create_sasl_io and create_cbs_connection both TRUE for CBS and
\* both FALSE for X509; it calls the stream provider only without a stream;
\* and without a registered device it calls nothing and leaves the stream
\* and the connection as they are.  And a step that makes a connection where
\* there was none is taken from outside the loop over the devices, with no
\* retry pending, a device registered and the mode set.
ConnectionCreatedOnlyWhenNeeded ==
    /\ [](pc = "idle" /\ ~is_connection_retry_required =>
          \A provider_ok \in BOOLEAN, feed_ok \in BOOLEAN, create_ok \in BOOLEAN :
             LET e == DoWork_Connect(provider_ok, feed_ok, create_ok)
             IN /\ "amqp_connection_create" \in Range(e.calls) =>
                      /\ registered_devices # <<>>
                      /\ amqp_connection = NULL
                      /\ preferred_authentication_mode \in {"CBS", "X509"}
                      /\ e.config.create_sasl_io =
                             (preferred_authentication_mode = "CBS")
                      /\ e.config.create_cbs_connection =
                             (preferred_authentication_mode = "CBS")
                      /\ e.tls_io # NULL
                /\ e.amqp_connection # amqp_connection =>
                      "amqp_connection_create" \in Range(e.calls)
                /\ "underlying_io_transport_provider" \in Range(e.calls) =>
                      tls_io = NULL
                /\ e.tls_io # tls_io =>
                      "underlying_io_transport_provider" \in Range(e.calls)
                /\ registered_devices = <<>> =>
                      /\ e.calls = <<>>
                      /\ e.tls_io = tls_io
                      /\ e.amqp_connection = amqp_connection)
    /\ [][amqp_connection = NULL /\ amqp_connection' # NULL =>
             /\ pc = "idle"
             /\ ~is_connection_retry_required
             /\ registered_devices # <<>>
             /\ preferred_authentication_mode \in {"CBS", "X509"}
             /\ amqp_connection' =
                    IF preferred_authentication_mode = "CBS"
                    THEN "CONNECTION_SASL_CBS" ELSE "CONNECTION_PLAIN"]_vars

\* C32, its case: a connection without SASL and CBS was created for a
\* transport in X509 mode on a stream that existed before
PlainConnectionForX509 ==
    /\ preferred_authentication_mode = "X509"
    /\ registered_devices # <<>>
    /\ amqp_connection = "CONNECTION_PLAIN"
    /\ amqp_connection_state = "CLOSED"
    /\ tls_io # NULL



\* C33: (1) whenever DoWork would find a retry pending, then for every
\* answer of device_stop, get_time and xio_retrieveoptions the retry leaves
\* no stream and no connection, and the cache holds the options retrieved
\* from the stream being destroyed if there is a stream and the retrieval
\* succeeds, and what it held before otherwise; (2) whenever there is no
\* stream, a DoWork that establishes the connection and a SetOption that
\* sets a stream option, if the provider answers, feed the new stream the
\* cached options (call OptionHandler_FeedOptions exactly when options are
\* cached, before amqp_connection_create), and have the stream whatever
\* OptionHandler_FeedOptions answers; (3) while there is no stream, no step
\* but Destroy changes the cache.
StreamOptionsSurviveRetry ==
    /\ [](pc = "idle" /\ is_connection_retry_required =>
          \A stops \in [Range(registered_devices) -> StopOutcomes],
             now \in StateChangeTimes, retrieve_ok \in BOOLEAN :
             LET r == prepare_for_connection_retry(stops, now, retrieve_ok)
             IN /\ r.tls_io = NULL
                /\ r.amqp_connection = NULL
                /\ r.saved_tls_options =
                       IF tls_io # NULL /\ retrieve_ok
                       THEN "OPTIONS_AT_RETRY" ELSE saved_tls_options)
    /\ [](pc = "idle" /\ tls_io = NULL =>
          \A feed_ok \in BOOLEAN :
             /\ ~is_connection_retry_required /\ registered_devices # <<>>
                    /\ amqp_connection = NULL =>
                   \A create_ok \in BOOLEAN :
                      LET e == DoWork_Connect(TRUE, feed_ok, create_ok)
                      IN /\ e.tls_io # NULL
                         /\ e.fed = saved_tls_options
                         /\ e.calls =
                               <<"underlying_io_transport_provider">>
                               \o (IF saved_tls_options # NULL
                                   THEN <<"OptionHandler_FeedOptions">> ELSE <<>>)
                               \o <<"amqp_connection_create">>
                         /\ (saved_tls_options # NULL /\ ~feed_ok =>
                                e.restored = FAILURE)
                         /\ e.amqp_connection # NULL <=> create_ok
             /\ \A option \in StreamOptions, setoption_ok \in BOOLEAN,
                   retrieve_ok \in BOOLEAN :
                   LET after == SetOption(option, TRUE, feed_ok, setoption_ok,
                                          retrieve_ok)
                   IN after.result # "IOTHUB_CLIENT_INVALID_ARG" =>
                         /\ after.tls_io # NULL
                         /\ after.created
                         /\ after.fed = saved_tls_options
                         /\ after.forwarded
                         /\ (saved_tls_options # NULL /\ ~feed_ok =>
                                after.restored = FAILURE)
                         /\ after.result = "IOTHUB_CLIENT_OK" <=> setoption_ok)
    /\ [][tls_io = NULL /\ tls_io' = NULL /\ pc' # "destroyed" =>
             saved_tls_options' = saved_tls_options]_vars

\* C33, its case: the options retrieved in a retry are cached, and the
\* connection has been established again on a new stream
NewStreamAfterRetryWithOptions ==
    /\ saved_tls_options = "OPTIONS_AT_RETRY"
    /\ tls_io # NULL
    /\ amqp_connection # NULL



\* C34: whenever the device about to get its tick is STOPPED, then for every
\* answer of amqp_connection_get_session_handle, amqp_connection_get_cbs_handle
\* and device_start_async: device_start_async is called exactly when the
\* session handle was obtained and, in CBS mode, the CBS handle too; when a
\* handle is not obtained or device_start_async fails, the tick fails and
\* leaves the device instance as it is (STOPPED, both counters unchanged);
\* when the start succeeds the tick succeeds.  And a step that ticks a
\* STOPPED device and leaves it STOPPED changes neither the device instance
\* nor is_connection_retry_required.
FailedStartIsNotCounted ==
    /\ [](pc = "devices" /\ ~SkipsDevice(CurrentDevice)
              /\ dev[CurrentDevice].device_state = "STOPPED" =>
          LET c == CurrentDevice
          IN \A in \in RelevantInputs(c) :
                LET branched == DeviceBranch(c, TickState(c), in)
                    handles == /\ in.start # "session_handle_failed"
                               /\ (preferred_authentication_mode = "CBS" =>
                                      in.start # "cbs_handle_failed")
                IN \A ev \in SessionEvents(branched.s) :
                      LET ticked == IoTHubTransport_AMQP_Common_Device_DoWork(
                                        c, TickState(c), in, ev)
                      IN /\ ("device_start_async" \in Range(ticked.calls)) <=> handles
                         /\ ticked.result = RESULT_OK <=> in.start = "started"
                         /\ in.start # "started" =>
                               /\ ticked.d = dev[c]
                               /\ ticked.d.device_state = "STOPPED"
                               /\ ticked.d.number_of_previous_failures
                                      < MAX_NUMBER_OF_DEVICE_FAILURES
                         /\ in.start = "started" =>
                               branched.d.device_state = "STARTING")
    /\ [][\A c \in Clients :
             Ticked(c) /\ dev[c].device_state = "STOPPED"
                 /\ dev'[c].device_state = "STOPPED" =>
                 /\ dev'[c] = dev[c]
                 /\ is_connection_retry_required' = is_connection_retry_required]_vars

\* C34, its case: the loop over the devices of an open connection is over,
\* and the first device, which has no failure counted, is still STOPPED:
\* its start failed in this DoWork call
StillStoppedAfterItsTick ==
    /\ pc = "amqp_connection_do_work"
    /\ amqp_connection_state = "OPENED"
    /\ Len(registered_devices) = 2
    /\ dev[registered_devices[1]].device_state = "STOPPED"
    /\ dev[registered_devices[1]].number_of_previous_failures = 0
    /\ dev[registered_devices[2]].device_state = "STARTING"
    /\ ~is_connection_retry_required


(* ------------------------------ start-up ------------------------------ *)
\* One device that stays registered while the host keeps calling DoWork.
\* The stream provider and amqp_connection_create succeed, the connection
\* reports OPENED and then nothing else, the session and CBS handles are
\* obtained and device_start_async takes the session to STARTING; while the
\* device is STARTING the clock is readable and shows no timeout, and the
\* session reports STARTED and no error.  Everything else is open: a started
\* session may report ERROR_MSG, reject submissions and complete events with
\* every result, a stop may fail or stay pending, and the clock may then be
\* unreadable or show the timeout.
StartupConnectionStates ==
    IF amqp_connection_state = "OPENED" THEN {"OPENED"} ELSE {"CLOSED", "OPENED"}

StartupInputs(c) ==
    {i \in RelevantInputs(c) :
        /\ i.start = "started"
        /\ i.now = 0
        /\ (dev[c].device_state = "STARTING" => i.current_time = 0)}

StartupEvents(s) ==
    {e \in SessionEvents(s) : s.state = "STARTING" => e.to \notin SessionErrors}

DoWork_StartupDevice ==
    /\ pc = "devices"
    /\ \E in \in StartupInputs(CurrentDevice) :
          \E ev \in StartupEvents(DeviceBranch(CurrentDevice,
                                      TickState(CurrentDevice), in).s) :
             DoWork_Device(in, ev)

NextStartup ==
    \/ \E c \in FirstClient, deviceKey \in Credentials :
          IoTHubTransport_AMQP_Common_Register(
              c, [ptr |-> CallerBuffer(c), chars |-> "a"], deviceKey, NULL, "none", 0)
    \/ \E c \in FirstClient : Enqueue(c, MaxEvents)
    \/ \E stops \in [Range(registered_devices) -> StopOutcomes] :
          DoWork_Retry(stops, 0, TRUE)
    \/ \E feed_ok \in FeedAnswers : DoWork_Begin(TRUE, feed_ok, TRUE)
    \/ DoWork_StartupDevice
    \/ \E new_state \in StartupConnectionStates : DoWork_Connection(new_state)

\* the host calls DoWork again and again
DoWork_Called ==
    \/ \E stops \in [Range(registered_devices) -> StopOutcomes] :
          DoWork_Retry(stops, 0, TRUE)
    \/ \E feed_ok \in FeedAnswers : DoWork_Begin(TRUE, feed_ok, TRUE)
    \/ DoWork_StartupDevice
    \/ \E new_state \in StartupConnectionStates : DoWork_Connection(new_state)

\* the tick in which the device session reports STARTED
SessionReportsStarted ==
    /\ pc = "devices"
    /\ \E in \in StartupInputs(CurrentDevice) :
          /\ DeviceBranch(CurrentDevice, TickState(CurrentDevice), in).s.state
                 = "STARTING"
          /\ DoWork_Device(in, [kind |-> "state", to |-> "STARTED",
                                result |-> NULL, source |-> NULL])

SpecStartup ==
    /\ Init
    /\ [][NextStartup]_vars
    /\ WF_vars(DoWork_Called)
    /\ SF_vars(DoWork_Connection("OPENED"))
    /\ SF_vars(SessionReportsStarted)


\* an event that left the waiting-to-send list through
\* device_send_event_async: the session has it in flight, or its
\* confirmation callback has fired
Offered(c, n) ==
    /\ n \notin Range(waiting_to_send[c])
    /\ n \in Range(session[c].in_flight) \cup Range(confirmations[c])

DeviceStartsAndDrains ==
    \A c \in FirstClient :
       /\ IsRegistered(c) ~> dev[c].device_state = "STARTED"
       /\ \A n \in 1..MaxEvents :
             n \in Range(waiting_to_send[c]) ~> Offered(c, n)

\* no registered device is in an error state
NoDeviceInError ==
    \A c \in FirstClient : IsRegistered(c) => dev[c].device_state \notin SessionErrors

RegistryAgreesWithPreferredMode ==
    /\ \A c \in Clients :
          IsRegistered(c) =>
             session[c].authentication_mode = preferred_authentication_mode
    /\ registered_devices # <<>> =>
          /\ preferred_authentication_mode \in {"CBS", "X509"}
          /\ \A provider_ok \in BOOLEAN, feed_ok \in BOOLEAN, create_ok \in BOOLEAN :
                DoWork_Connect(provider_ok, feed_ok, create_ok).result # RESULT_OK
                   => ~provider_ok \/ ~create_ok

\* two devices registered without key and token, no stream and no connection
\* yet: the next DoWork call establishes the connection
TwoX509DevicesRegistered ==
    /\ Len(registered_devices) = 2
    /\ \A c \in Clients : IsRegistered(c) /\ session[c].authentication_mode = "X509"
    /\ preferred_authentication_mode = "X509"
    /\ tls_io = NULL /\ amqp_connection = NULL
    /\ DoWork_Connect(TRUE, TRUE, TRUE).amqp_connection = "CONNECTION_PLAIN"


\* C37: the transport writes device_state itself only to force ERROR_AUTH on
\* a device recorded as STARTING or STOPPING, and that write leaves
\* time_of_last_state_change (and every other field) alone; every other
\* change of a registered device's device_state is the state the device
\* session notified.
DeviceStateForcedOnlyToErrorAuth ==
    /\ [](\A c \in Clients :
             Ticked(c) =>
                \A in \in RelevantInputs(c) :
                   LET ts == TickState(c)
                       branched == DeviceBranch(c, ts, in)
                   IN /\ branched.d.device_state # ts.d.device_state
                      /\ branched.s.state = ts.s.state
                      => /\ ts.d.device_state \in {"STARTING", "STOPPING"}
                         /\ branched.d = [ts.d EXCEPT !.device_state = "ERROR_AUTH"]
                         /\ branched.calls = <<>>)
    /\ [][\A c \in Clients :
             /\ IsRegistered(c) /\ IsRegistered(c)'
             /\ dev'[c].device_state # dev[c].device_state
             => \/ /\ session'[c].state # session[c].state
                   /\ dev'[c].device_state = session'[c].state
                \/ /\ Ticked(c)
                   /\ session'[c] = session[c]
                   /\ dev[c].device_state \in {"STARTING", "STOPPING"}
                   /\ dev'[c] = [dev[c] EXCEPT !.device_state = "ERROR_AUTH"]]_vars

\* a device forced to ERROR_AUTH while its session is still starting, the
\* time of the state change to STARTING still on record
ForcedWhileStartingTimeKept ==
    \E c \in Clients :
        /\ IsRegistered(c)
        /\ session[c].state = "STARTING"
        /\ dev[c].device_state = "ERROR_AUTH"
        /\ dev[c].time_of_last_state_change = 0
        /\ dev[c].number_of_previous_failures = 0


(* ------------------------------- queues ------------------------------- *)
\* One upper client that enqueues events while its device is registered and
\* unregistered, an option is set on the byte-stream, messages are
\* subscribed to, DoWork runs and the transport is destroyed.  The stream
\* and the connection are created, the connection reports OPENED or ERROR, the
\* clock works, no state change times out and the session reports no error
\* state; it accepts or rejects submissions and completes events with every
\* result, and delivers no messages.
QueueTickInputs(c) ==
    {i \in RelevantInputs(c) :
        /\ WorkingClock(i)
        /\ i.current_time = 0
        /\ i.start = "started"
        /\ i.stop \in PromptStops}

QueueEvents(s) ==
    {e \in SessionEvents(s) : e.kind # "message" /\ e.to \notin SessionErrors}

NextQueue ==
    \/ \E c \in FirstClient :
          IoTHubTransport_AMQP_Common_Register(
              c, [ptr |-> CallerBuffer(c), chars |-> "a"], "credential", NULL,
              "none", 0)
    \/ \E c \in FirstClient : IoTHubTransport_AMQP_Common_Unregister(c)
    \/ \E option \in StreamOptions \ X509Options :
          IoTHubTransport_AMQP_Common_SetOption(option, TRUE, TRUE, TRUE, TRUE)
    \/ \E c \in FirstClient, subscribe_ok \in BOOLEAN :
          IoTHubTransport_AMQP_Common_Subscribe(c, subscribe_ok)
    \/ \E c \in FirstClient : Enqueue(c, MaxQueued)
    \/ \E stops \in [Range(registered_devices) -> PromptStops] :
          DoWork_Retry(stops, 0, TRUE)
    \/ DoWork_Begin(TRUE, TRUE, TRUE)
    \/ /\ pc = "devices"
       /\ \E in \in QueueTickInputs(CurrentDevice) :
             \E ev \in QueueEvents(DeviceBranch(CurrentDevice,
                                       TickState(CurrentDevice), in).s) :
                DoWork_Device(in, ev)
    \/ \E new_state \in {"OPENED", "ERROR"} : DoWork_Connection(new_state)
    \/ IoTHubTransport_AMQP_Common_Destroy

SpecQueue == Init /\ [][NextQueue]_vars


\* the list  before  lost an entry on the way to  after
EntryRemoved(before, after) == \E n \in Range(before) : n \notin Range(after)
\* the list  after  holds an entry that  before  did not
EntryAdded(before, after) == \E n \in Range(after) : n \notin Range(before)

\* the tick of device c in which events are submitted: inside a DoWork call
\* on an OPENED connection, the device recorded as STARTED and its events
\* completed with fewer than MAX_NUMBER_OF_DEVICE_FAILURES failures
SubmittingTick(c) ==
    /\ Ticked(c)
    /\ amqp_connection_state = "OPENED"
    /\ dev[c].device_state = "STARTED"
    /\ dev[c].number_of_send_event_complete_failures < MAX_NUMBER_OF_DEVICE_FAILURES

\* C38: an entry leaves a waiting-to-send list, and the device session is
\* given an event, only in the tick of a STARTED device with fewer than five
\* send-complete failures, inside a DoWork call that found no retry required
\* and the connection OPENED; every entry that leaves the list was passed to
\* device_send_event_async (it is in flight, or its callback has fired); and
\* an entry is added only by the upper client's enqueue, never by Register,
\* Unregister, SetOption, Subscribe, the retry tick or Destroy.
QueueTouchedOnlyByStartedTick ==
    /\ [][pc = "idle" /\ pc' = "devices" =>
             ~is_connection_retry_required /\ amqp_connection_state' = "OPENED"]_vars
    /\ [](pc = "devices" => amqp_connection_state = "OPENED")
    /\ [][\A c \in Clients :
             /\ EntryRemoved(waiting_to_send[c], waiting_to_send'[c])
                   \/ EntryAdded(session[c].in_flight, session'[c].in_flight)
                => /\ SubmittingTick(c)
                   /\ \A n \in Range(waiting_to_send[c]) :
                         n \notin Range(waiting_to_send'[c]) =>
                            n \in Range(session'[c].in_flight)
                                     \cup Range(confirmations'[c])
                   /\ ~EntryAdded(waiting_to_send[c], waiting_to_send'[c])
             /\ EntryAdded(waiting_to_send[c], waiting_to_send'[c])
                => /\ pc = "idle" /\ pc' = "idle"
                   /\ waiting_to_send'[c] = Append(waiting_to_send[c], EventsOf(c) + 1)
                   /\ UNCHANGED <<tls_io, saved_tls_options, amqp_connection,
                                  amqp_connection_state,
                                  preferred_authentication_mode,
                                  device_specific_options, registered_devices,
                                  is_connection_retry_required, dev, session,
                                  confirmations, contexts, list_item>>]_vars

\* a subscribed, started device with one event in flight and one still
\* waiting, after a retry tick: the stream options were cached by it
QueuedBehindEventInFlight ==
    \E c \in Clients :
       /\ IsRegistered(c)
       /\ session[c].subscribed
       /\ dev[c].device_state = "STARTED"
       /\ session[c].in_flight = <<1>>
       /\ waiting_to_send[c] = <<2>>
       /\ saved_tls_options = "OPTIONS_AT_RETRY"


\* C39: every device_send_message_disposition call the transport makes is
\* made on the session of the device that received the message, which is
\* still registered: never on the session of a device instance that was
\* unregistered and freed since, nor on whatever replaced it.
DispositionOnlyToRegisteredDevice ==
    last_disposition.call # NoCall =>
        /\ last_disposition.call.session = "receiving_session"
        /\ IsRegistered(contexts[last_disposition.message_data].device_state)
        /\ last_freed_access = 0


(* ------------------------------- options ------------------------------ *)
\* The calls of NextOptions together with SetOption calls for the options
\* of the byte-stream, with every answer of the stream provider and the
\* stream.
NextSetOption ==
    \/ NextOptions
    \/ \E option \in StreamOptions, answer \in SetOptionAnswers :
          IoTHubTransport_AMQP_Common_SetOption(
              option, answer.provider_ok, answer.feed_ok, answer.setoption_ok,
              answer.retrieve_ok)

SpecSetOption == Init /\ [][NextSetOption]_vars

\* C40: with the preferred mode NOT_SET, a SetOption call with an x509 option
\* leaves the mode X509 also when it returns IOTHUB_CLIENT_ERROR because the
\* stream provider fails (nothing is forwarded) or the stream rejects the
\* option; and a SetOption call with a device-specific option that a device
\* session refuses returns IOTHUB_CLIENT_ERROR with the value stored in the
\* transport, set on the devices before the refusing one and on no other.
FailedSetOptionKeepsWhatItStored ==
    /\ preferred_authentication_mode = "NOT_SET" =>
          \A option \in X509Options, answer \in SetOptionAnswers :
             LET after == SetOption(option, answer.provider_ok, answer.feed_ok,
                                    answer.setoption_ok, answer.retrieve_ok)
                 provider_failed == tls_io = NULL /\ ~answer.provider_ok
             IN /\ after.preferred_authentication_mode = "X509"
                /\ after.result = "IOTHUB_CLIENT_ERROR"
                      <=> provider_failed \/ ~answer.setoption_ok
                /\ provider_failed => ~after.forwarded /\ after.tls_io = NULL
                /\ ~provider_failed /\ ~answer.setoption_ok => after.forwarded
    /\ \A option \in DeviceSpecificOptions, value \in OptionValues,
          refused_at \in 1..Len(registered_devices) :
          LET after == SetDeviceSpecificOption(option, value, refused_at)
              device_option == get_device_option_name_from(option)
          IN /\ after.result = "IOTHUB_CLIENT_ERROR"
             /\ CurrentValue(after.device_specific_options, option) = value
             /\ \A i \in 1..Len(registered_devices) :
                   LET c == registered_devices[i]
                   IN IF i < refused_at
                      THEN after.session[c].options[device_option] = value
                      ELSE after.session[c] = session[c]

\* the mode is X509 and there is no stream, and the transport holds an event
\* send timeout that the second of two registered devices does not have: it
\* refused the option, or the device before it did
DefaultKeptAfterRefusal ==
    /\ preferred_authentication_mode = "X509"
    /\ tls_io = NULL
    /\ Len(registered_devices) = 2
    /\ device_specific_options.option_send_event_timeout_secs = 1
    /\ session[registered_devices[2]].options["DEVICE_OPTION_EVENT_SEND_TIMEOUT_SECS"]
           = DEFAULT_EVENT_SEND_TIMEOUT_SECS

=============================================================================
